---- MODULE Spec2Model ----
(***************************************************************************)
(* PaypalCommerceButtonStrategy: the session fields of the controller, the *)
(* callbacks it registers with the PayPal button widget (click,            *)
(* shipping-change, approve) and initialize/deinitialize, as one state     *)
(* machine.  Each callback is one action: the widget delivers callbacks    *)
(* serially, so a handler runs from its first statement to its return.     *)
(*                                                                         *)
(* Optional JavaScript values are sequences: <<>> is undefined, <<v>> is   *)
(* the value v.  Numbers are integers counted in thousandths of a          *)
(* currency unit; a decimal string such as "5.00" is the record            *)
(* [mills |-> 5000, decimals |-> 2].                                       *)
(***************************************************************************)
EXTENDS Integers, Sequences, FiniteSets, TLC

VARIABLES
    _isCredit,                  \* this._isCredit
    _cache,                     \* this._cache
    _submittedShippingAddress,  \* this._submittedShippingAddress
    _currentShippingAddress,    \* this._currentShippingAddress
    _shippingOptionId,          \* this._shippingOptionId
    _intent,                    \* this._intent
    buttons,                    \* the callbacks rendered by initialize(), with the
                                \* isHosted and cart they closed over; <<>> if none
    _orderActionCreator,        \* whether the optional constructor argument was given
    engine,                     \* the Array.prototype.sort of the JavaScript engine
    recorded,                   \* history: a shipping-change event since the latest
                                \* initialize() assigned _currentShippingAddress
    last,                       \* the latest handler invocation: input and effects
    clicked,                    \* history: the funding source of the latest click
                                \* since the latest deinitialize(), <<>> if none
    alternative,                \* the PaypalCommerceAlternativeMethodsButtonStrategy
                                \* of the page: its SDK, its container, its latest
                                \* invocation
    probe,                      \* the latest application of a helper to an input
    pending,                    \* the shipping-change handlers in flight: where each
                                \* one is suspended and what it holds
    window                      \* window.paypal and window.paypalLoadScript, and the
                                \* latest loadPaypalCommerce call

vars == << _isCredit, _cache, _submittedShippingAddress, _currentShippingAddress,
           _shippingOptionId, _intent, buttons, _orderActionCreator, engine,
           recorded, last, clicked, alternative, probe, pending, window >>

\* What the handlers of PaypalCommerceButtonStrategy never touch.
others == << alternative, probe, pending, window >>

session == << _isCredit, _cache, _submittedShippingAddress, _currentShippingAddress,
              _shippingOptionId, _intent >>

(***************************************************************************)
(* Bounds of the model.                                                    *)
(***************************************************************************)
MaxOptions == 2     \* longest availableShippingOptions list the gateway returns
MaxItems == 2       \* most digital items, and most physical items, of a cart

None == <<>>
Some(v) == <<v>>
IsSome(o) == o # <<>>
Val(o) == o[1]

(***************************************************************************)
(* Numbers and decimal strings.                                            *)
(***************************************************************************)
\* Number.prototype.toFixed(2): round half up to hundredths, two decimals.
toFixed2(n) == [mills |-> ((n + 5) \div 10) * 10, decimals |-> 2]

\* String(n): the shortest decimal text of the number.
String(n) ==
    [mills |-> n,
     decimals |-> IF n % 1000 = 0 THEN 0
                  ELSE IF n % 100 = 0 THEN 1
                  ELSE IF n % 10 = 0 THEN 2 ELSE 3]

\* parseFloat(s) of a decimal string.
parseFloat(s) == s.mills

(***************************************************************************)
(* String.prototype.toUpperCase on the strings of the model.               *)
(***************************************************************************)
toUpperCase(s) ==
    CASE s = "tx" -> "TX"
      [] s = "ca" -> "CA"
      [] s = "us" -> "US"
      [] OTHER -> s

\* Array.prototype.find: the first element satisfying P, or undefined.
\* hits: the places of seq whose element satisfies the callback.
find(seq, hits) ==
    IF hits = {} THEN None
    ELSE Some(seq[CHOOSE i \in hits : \A j \in hits : i <= j])

(***************************************************************************)
(* Geography: the static US state table and the store's country tables.    *)
(***************************************************************************)
UNITED_STATES_CODES ==
    << [name |-> "California", abbreviation |-> "CA"],
       [name |-> "Texas",      abbreviation |-> "TX"] >>

\* What getStoreCountries() can answer.
StoreCountries ==
    { [data |-> << [code |-> "US",
                    subdivisions |-> << [code |-> "CA"], [code |-> "TX"] >>] >>] }

\* What getStoreCountries() can answer over time: the table above, or one the
\* merchant has since changed (California is no longer served).
CountryTables ==
    StoreCountries \cup
        { [data |-> << [code |-> "US", subdivisions |-> << [code |-> "TX"] >>] >>] }

\* The shipping_address a shipping-change event can carry.
ShippingAddresses ==
    { [city |-> "Austin", postal_code |-> "78701", country_code |-> "US", state |-> "TX"],
      [city |-> "Fresno", postal_code |-> "93650", country_code |-> "us", state |-> "ca"],
      [city |-> "Nowhere", postal_code |-> "00000", country_code |-> "US", state |-> "ZZ"] }

_transformUSCodes(code) ==
    find(UNITED_STATES_CODES,
         { i \in 1..Len(UNITED_STATES_CODES) :
               /\ UNITED_STATES_CODES[i].name = code
               /\ UNITED_STATES_CODES[i].abbreviation # "" })

\* Every contact a shipping-change event can carry: also a free-text US state
\* name and a country the store does not ship to.
Contacts ==
    ShippingAddresses \cup
    { [city |-> "Dallas", postal_code |-> "75201", country_code |-> "US", state |-> "Texas"],
      [city |-> "Lyon", postal_code |-> "69001", country_code |-> "FR", state |-> "TX"] }

\* Lines 262-268: the subdivision found for a contact in a country table.
stateAddressOf ==
    [contact \in Contacts, countries \in CountryTables |->
        LET addressCountry ==
                find(countries.data,
                     { i \in 1..Len(countries.data) :
                           countries.data[i].code = toUpperCase(contact.country_code) })
        IN  IF IsSome(addressCountry)
            THEN LET subdivisions == Val(addressCountry).subdivisions
                 IN  find(subdivisions,
                          { i \in 1..Len(subdivisions) :
                                \/ subdivisions[i].code = toUpperCase(contact.state)
                                \/ IsSome(_transformUSCodes(contact.state)) })
            ELSE None]

\* Mutant of _transformToAddress: the fresh answer is used and cached each time.
_transformToAddress_FreshTable(contact, getCountries, cache) ==
    LET countries == getCountries
        cacheAfter == IF IsSome(cache) THEN Some([countries |-> Some(countries)]) ELSE cache
        stateAddress == stateAddressOf[contact, countries]
    IN  IF IsSome(stateAddress)
        THEN [threw |-> FALSE, cache |-> cacheAfter,
              address |-> Some([city |-> contact.city,
                                postalCode |-> Val(stateAddress).code,
                                countryCode |-> contact.country_code])]
        ELSE [threw |-> TRUE, cache |-> cacheAfter, address |-> None]

\* _transformToAddress: the cache after the call, and the address or the throw.
_transformToAddress(contact, getCountries, cache) ==
    LET countries == IF IsSome(cache) /\ IsSome(Val(cache).countries)
                     THEN Val(Val(cache).countries) ELSE getCountries
        cacheAfter == IF IsSome(cache) THEN Some([countries |-> Some(countries)]) ELSE cache
        stateAddress == stateAddressOf[contact, countries]
    IN  IF IsSome(stateAddress)
        THEN [threw |-> FALSE, cache |-> cacheAfter,
              address |-> Some([city |-> contact.city,
                                postalCode |-> Val(stateAddress).code,
                                countryCode |-> contact.country_code])]
        ELSE [threw |-> TRUE, cache |-> cacheAfter, address |-> None]

\* JSON.stringify of an address (or of undefined): its keys and values in order.
JSONstringify(a) ==
    IF IsSome(a)
    THEN Some(<< "city", Val(a).city, "postalCode", Val(a).postalCode,
                 "countryCode", Val(a).countryCode >>)
    ELSE None

_isAddressSame(address1, address2) == JSONstringify(address1) = JSONstringify(address2)

\* Mutant of _collectLineItems: the physical items are spread first.
_collectLineItems_PhysicalFirst(lineItems) ==
    LET all == lineItems.physicalItems \o lineItems.digitalItems
    IN  [i \in 1..Len(all) |-> [itemId |-> all[i].id, quantity |-> all[i].quantity]]

\* _collectLineItems: digital items first, then physical items.
_collectLineItems(lineItems) ==
    LET all == lineItems.digitalItems \o lineItems.physicalItems
    IN  [i \in 1..Len(all) |-> [itemId |-> all[i].id, quantity |-> all[i].quantity]]

(***************************************************************************)
(* The carts loadDefaultCheckout() can return.                             *)
(***************************************************************************)
Carts ==
    { [id |-> "cart-physical", baseAmount |-> 49990,
       lineItems |-> [digitalItems |-> << >>,
                      physicalItems |-> << [id |-> "p1", quantity |-> 1] >>]],
      [id |-> "cart-digital", baseAmount |-> 20000,
       lineItems |-> [digitalItems |-> << [id |-> "d1", quantity |-> 2] >>,
                      physicalItems |-> << >>]] }

(***************************************************************************)
(* What the gateway and the widget can hand to the shipping-change handler.*)
(***************************************************************************)
\* The shipping options of the store, in the order the gateway lists them.
OptionOrder == << "A", "B", "C", "D" >>

OptionIds == { OptionOrder[i] : i \in 1..MaxOptions }

\* The gateway's price of each shipping option, a number.
OptionCost(id) == CASE id = "A" -> 5000 [] id = "B" -> 12000 [] OTHER -> 7505

AvailableShippingOption(id, rec) ==
    [id |-> id, description |-> id, cost |-> OptionCost(id), isRecommended |-> rec]

\* The lists of the first n options, each recommended or not, for n up to MaxOptions.
OptionLists ==
    UNION { { [i \in 1..n |-> AvailableShippingOption(OptionOrder[i], rec[i])] :
                rec \in [1..n -> BOOLEAN] } : n \in 0..MaxOptions }

\* consignments[0].availableShippingOptions of a getShippingOptions() answer:
\* a list, or undefined.
AvailableShippingOptions == {None} \cup { Some(l) : l \in OptionLists }

\* The checkout getShippingOptions() answers for the cart of the session.
Checkouts(cart) ==
    { [consignments |-> << [availableShippingOptions |-> o] >>,
       cart |-> [lineItems |-> cart.lineItems]] : o \in AvailableShippingOptions }

\* The amounts the widget can hold for an option: the one of the gateway's price
\* and, for the first option, also the one of an earlier quote.
WidgetAmounts(id) ==
    { toFixed2(OptionCost(id)) } \cup (IF id = "A" THEN { toFixed2(12000) } ELSE {})

\* data.selected_shipping_option: absent, or the option the shopper picked in the
\* widget with the amount the widget holds for it.
SelectedShippingOptions ==
    {None} \cup UNION { { Some([id |-> id, amount |-> [value |-> v]]) :
                            v \in WidgetAmounts(id) } : id \in OptionIds }

ShippingChangeData ==
    [shipping_address : ShippingAddresses, selected_shipping_option : SelectedShippingOptions]

(***************************************************************************)
(* Lines 172-199: the map over availableShippingOptions.                   *)
(***************************************************************************)
\* Whether the handler takes the shopper-selection branch (line 175-177).
BuyerHasChosen(data, current, submitted) ==
    IsSome(data.selected_shipping_option) /\ _isAddressSame(current, submitted)

\* Mutant of isSelected: the recommendation branch selects every option.
isSelected_EveryOption(option, data, current, submitted) ==
    IF BuyerHasChosen(data, current, submitted)
    THEN option.id = Val(data.selected_shipping_option).id
    ELSE TRUE

\* Mutant of isSelected: line 175 without `data.selected_shipping_option &&`.
isSelected_AddressOnly(option, data, current, submitted) ==
    IF _isAddressSame(current, submitted)
    THEN /\ IsSome(data.selected_shipping_option)
         /\ option.id = Val(data.selected_shipping_option).id
    ELSE option.isRecommended

\* Lines 173-187: the value of isSelected for an option.
isSelected(option, data, current, submitted) ==
    IF BuyerHasChosen(data, current, submitted)
    THEN option.id = Val(data.selected_shipping_option).id
    ELSE option.isRecommended

\* shippingAmount after the callback ran on options[1..i], from `amount` before.
RECURSIVE ShippingAmountAfter(_, _, _, _, _, _)
ShippingAmountAfter(options, i, amount, data, current, submitted) ==
    IF i = 0 THEN amount
    ELSE LET before == ShippingAmountAfter(options, i - 1, amount, data, current, submitted)
             option == options[i]
         IN  IF ~isSelected(option, data, current, submitted) THEN before
             ELSE IF BuyerHasChosen(data, current, submitted)
                  THEN Val(data.selected_shipping_option).amount.value
                  ELSE toFixed2(parseFloat(String(option.cost)))

PaypalShippingOption(option, data, current, submitted) ==
    [id |-> option.id,
     type |-> "SHIPPING",
     label |-> option.description,
     selected |-> isSelected(option, data, current, submitted),
     amount |-> [value |-> toFixed2(parseFloat(String(option.cost))),
                 currency_code |-> "USD"]]

(***************************************************************************)
(* Lines 201-203: shippingOptions.sort(comparator).  The comparator        *)
(* answers -1 whenever the two options differ in `selected`, whichever     *)
(* comes first (`a` is an object, always truthy), so it is not a           *)
(* consistent comparison and the resulting order is the engine's:          *)
(*   "TimSort"        V8 from 7.0 (Chrome 70, Node 11), arrays under 64;   *)
(*   "InsertionSort"  V8 before 7.0 for arrays of at most 10 elements, and *)
(*                    any engine that moves an element only on a result    *)
(*                    above zero.                                          *)
(***************************************************************************)
Engines == {"TimSort", "InsertionSort"}

comparator(a, b) == IF a.selected = b.selected THEN 0 ELSE (-1)

Reverse(seq) == [i \in 1..Len(seq) |-> seq[Len(seq) + 1 - i]]

\* CountAndMakeRun: the length of the run starting at the first element.
RECURSIVE RunEnd(_, _, _)
RunEnd(a, idx, isDescending) ==
    IF idx > Len(a) THEN Len(a)
    ELSE LET order == comparator(a[idx], a[idx - 1])
         IN  IF (isDescending /\ order >= 0) \/ (~isDescending /\ order < 0)
             THEN idx - 1
             ELSE RunEnd(a, idx + 1, isDescending)

\* BinaryInsertionSort's search of the slot of pivot in a[left0+1 .. right0].
RECURSIVE BinarySlot(_, _, _, _)
BinarySlot(a, pivot, left0, right0) ==
    IF left0 >= right0 THEN left0
    ELSE LET mid0 == left0 + ((right0 - left0) \div 2)
         IN  IF comparator(pivot, a[mid0 + 1]) < 0
             THEN BinarySlot(a, pivot, left0, mid0)
             ELSE BinarySlot(a, pivot, mid0 + 1, right0)

RECURSIVE BinaryInsertionSort(_, _)
BinaryInsertionSort(a, start) ==
    IF start > Len(a) THEN a
    ELSE LET pivot == a[start]
             left0 == BinarySlot(a, pivot, 0, start - 1)
             moved == SubSeq(a, 1, left0) \o << pivot >>
                      \o SubSeq(a, left0 + 1, start - 1)
                      \o SubSeq(a, start + 1, Len(a))
         IN  BinaryInsertionSort(moved, start + 1)

TimSort(a) ==
    IF Len(a) < 2 THEN a
    ELSE LET isDescending == comparator(a[2], a[1]) < 0
             runLength == RunEnd(a, 3, isDescending)
             run == IF isDescending
                    THEN Reverse(SubSeq(a, 1, runLength)) \o SubSeq(a, runLength + 1, Len(a))
                    ELSE a
         IN  BinaryInsertionSort(run, runLength + 1)

\* InsertionSort: the slot left of which `element` stops moving.
RECURSIVE InsertionSlot(_, _, _)
InsertionSlot(a, element, j) ==
    IF j < 1 THEN 0
    ELSE IF comparator(a[j], element) > 0 THEN InsertionSlot(a, element, j - 1) ELSE j

RECURSIVE InsertionSort(_, _)
InsertionSort(a, i) ==
    IF i > Len(a) THEN a
    ELSE LET element == a[i]
             j == InsertionSlot(a, element, i - 1)
             moved == SubSeq(a, 1, j) \o << element >> \o SubSeq(a, j + 1, i - 1)
                      \o SubSeq(a, i + 1, Len(a))
         IN  InsertionSort(moved, i + 1)

\* The order an engine leaves n elements in depends on their `selected` flags
\* alone: SortedOrder[eng][flags][i] is the place in the input of the element
\* that ends at place i.
SortedOrder ==
    [eng \in Engines |->
        [flags \in UNION { [1..n -> BOOLEAN] : n \in 0..MaxOptions } |->
            LET a == [i \in 1..Len(flags) |-> [selected |-> flags[i], place |-> i]]
                sorted == IF eng = "TimSort" THEN TimSort(a) ELSE InsertionSort(a, 2)
            IN  [i \in 1..Len(flags) |-> sorted[i].place]]]

sort(a, eng) ==
    LET order == SortedOrder[eng][[i \in 1..Len(a) |-> a[i].selected]]
    IN  [i \in 1..Len(a) |-> a[order[i]]]

(***************************************************************************)
(* The patches sent to the provider order.                                 *)
(***************************************************************************)
AmountPath == "/purchase_units/@reference_id=='default'/amount"
OptionsPath == "/purchase_units/@reference_id=='default'/shipping/options"

\* Lines 150-165: the patch of the branch without shipping.
TotalPatch(baseOrderAmount) ==
    << [op |-> "replace",
        path |-> AmountPath,
        value |-> [currency_code |-> "USD",
                   value |-> toFixed2(parseFloat(String(baseOrderAmount))),
                   breakdown |-> [item_total |-> [currency_code |-> "USD",
                                                  value |-> baseOrderAmount]]]] >>

\* Mutant of AmountAndOptionsPatch: the value leaves the shipping amount out.
AmountAndOptionsPatch_BaseOnly(baseOrderAmount, shippingAmount, shippingOptions) ==
    << [op |-> "replace",
        path |-> AmountPath,
        value |-> [currency_code |-> "USD",
                   value |-> toFixed2(parseFloat(String(baseOrderAmount))),
                   breakdown |-> [item_total |-> [currency_code |-> "USD",
                                                  value |-> baseOrderAmount],
                                  shipping |-> [currency_code |-> "USD",
                                                value |-> shippingAmount]]]],
       [op |-> "add", path |-> OptionsPath, value |-> shippingOptions] >>

\* Lines 210-234: the patch of the normal branch.
AmountAndOptionsPatch(baseOrderAmount, shippingAmount, shippingOptions) ==
    << [op |-> "replace",
        path |-> AmountPath,
        value |-> [currency_code |-> "USD",
                   value |-> toFixed2(parseFloat(String(baseOrderAmount))
                                      + parseFloat(shippingAmount)),
                   breakdown |-> [item_total |-> [currency_code |-> "USD",
                                                  value |-> baseOrderAmount],
                                  shipping |-> [currency_code |-> "USD",
                                                value |-> shippingAmount]]]],
       [op |-> "add", path |-> OptionsPath, value |-> shippingOptions] >>

\* Mutant of shippingRequired: `>= 0` for `> 0`.
shippingRequired_AtLeastZero(checkout) == Len(checkout.cart.lineItems.physicalItems) >= 0

\* Line 148: shipping is required when the checkout holds a physical item.
shippingRequired(checkout) == Len(checkout.cart.lineItems.physicalItems) > 0

\* Mutant of NoShippingOptions: `!availableShippingOptions` for `?.length === 0`.
NoShippingOptions_Undefined(availableShippingOptions) == ~IsSome(availableShippingOptions)

\* Line 169: the gateway answered an empty list of options.
NoShippingOptions(availableShippingOptions) ==
    IsSome(availableShippingOptions) /\ Len(Val(availableShippingOptions)) = 0

\* A call made on a collaborator, with its arguments.
Call(name, args) == [name |-> name, args |-> args]

(***************************************************************************)
(* _onShippingChangeHandler, lines 136-239: the session fields after the   *)
(* call, how the call ended and the patches it sent.  checkout is what     *)
(* getShippingOptions() answers, undefined when the handler does not get   *)
(* as far as calling it.                                                   *)
(***************************************************************************)
_onShippingChangeHandler(data, getCountries, checkout, cart, cache, current, submitted, optionId, eng) ==
    LET baseOrderAmount == cart.baseAmount
        t == _transformToAddress(data.shipping_address, getCountries, cache)
        cur == t.address
        availableShippingOptions == Val(checkout).consignments[1].availableShippingOptions
        options == Val(availableShippingOptions)
        shippingAmount ==
            ShippingAmountAfter(options, Len(options), toFixed2(0), data, cur, submitted)
        shippingOptions ==
            sort([i \in 1..Len(options) |->
                     PaypalShippingOption(options[i], data, cur, submitted)], eng)
        getStoreCountries == Call("getStoreCountries", << >>)
        getShippingOptions ==
            Call("getShippingOptions",
                 << cart.id, << [shippingAddress |-> cur,
                                 lineItems |-> _collectLineItems(cart.lineItems)] >> >>)
        patch == Call("patch", << >>)
        reject == Call("reject", << >>)
        resolve == Call("resolve", << >>)
    IN  IF t.threw
        THEN [cache |-> t.cache, current |-> current, submitted |-> submitted,
              optionId |-> optionId, outcome |-> "throw",
              error |-> "InvalidArgumentError", patches |-> << >>,
              calls |-> << getStoreCountries >>]
        ELSE IF ~shippingRequired(Val(checkout))
        THEN [cache |-> t.cache, current |-> cur, submitted |-> submitted,
              optionId |-> optionId, outcome |-> "patch", error |-> "",
              patches |-> << TotalPatch(baseOrderAmount) >>,
              calls |-> << getStoreCountries, getShippingOptions, patch >>]
        ELSE IF NoShippingOptions(availableShippingOptions)
        THEN [cache |-> t.cache, current |-> cur, submitted |-> submitted,
              optionId |-> optionId, outcome |-> "reject", error |-> "",
              patches |-> << >>,
              calls |-> << getStoreCountries, getShippingOptions, reject >>]
        ELSE IF IsSome(availableShippingOptions) /\ Len(options) = 0
        THEN \* line 204: shippingOptions[0] of an empty array is undefined
             [cache |-> t.cache, current |-> cur, submitted |-> submitted,
              optionId |-> optionId, outcome |-> "throw", error |-> "TypeError",
              patches |-> << >>,
              calls |-> << getStoreCountries, getShippingOptions >>]
        ELSE IF IsSome(availableShippingOptions)
        THEN [cache |-> t.cache, current |-> cur, submitted |-> cur,
              optionId |-> Some(shippingOptions[1].id), outcome |-> "resolve",
              error |-> "",
              patches |-> << AmountAndOptionsPatch(baseOrderAmount, shippingAmount,
                                                   shippingOptions) >>,
              calls |-> << getStoreCountries, getShippingOptions, patch, resolve >>]
        ELSE [cache |-> t.cache, current |-> cur, submitted |-> cur,
              optionId |-> optionId, outcome |-> "resolve", error |-> "",
              patches |-> << >>,
              calls |-> << getStoreCountries, getShippingOptions, resolve >>]

(***************************************************************************)
(* The state machine.                                                      *)
(***************************************************************************)
\* The page was left: window.location.assign or the form post was issued.
Unloaded == last.outcome \in {"redirect", "formPost"}

\* The record of a handler invocation.  For a shipping-change event: the event
\* data, the answers of getStoreCountries() and getShippingOptions(),
\* _submittedShippingAddress as the handler found it, and whether the invocation
\* just before was a shipping-change event with the same data and answers.
Invocation(op, data, getCountries, checkout, before, outcome, error, patches, calls) ==
    [op |-> op, data |-> data, getCountries |-> getCountries, checkout |-> checkout,
     submittedBefore |-> before,
     repeats |-> /\ op = "onShippingChange"
                 /\ last.op = "onShippingChange"
                 /\ last.data = data
                 /\ last.getCountries = getCountries
                 /\ last.checkout = checkout,
     outcome |-> outcome, error |-> error, patches |-> patches, calls |-> calls,
     failed |-> 0]

\* The invocation in which the k-th call to a collaborator was rejected.
Rejected(invocation, k) == [invocation EXCEPT !.failed = k]

NoInvocation ==
    [op |-> "constructor", data |-> None, getCountries |-> None, checkout |-> None,
     submittedBefore |-> None, repeats |-> FALSE, outcome |-> "return", error |-> "",
     patches |-> << >>, calls |-> << >>, failed |-> 0]

\* The other strategy before its initialize(), and no helper applied yet.
NoAlternative ==
    [_paypalCommerceSdk |-> None, button |-> None, container |-> "empty",
     last |-> [op |-> "constructor", input |-> None, environment |-> None,
               outcome |-> "return", error |-> "", argument |-> "", calls |-> << >>]]

NoProbe == [function |-> "", input |-> None, output |-> None]

\* The shipping-change handlers the widget can have in flight at one time.
Handlers == {"first", "second"}

\* No handler has started.
NoPending ==
    [h \in Handlers |-> [pc |-> "idle", data |-> None, address |-> None,
                         tested |-> None, outcome |-> "", submitted |-> None,
                         optionId |-> None]]

\* The page before any PayPal script was loaded.
NoWindow ==
    [paypal |-> None, paypalLoadScript |-> FALSE,
     last |-> [op |-> "constructor", params |-> None, outcome |-> "return", error |-> "",
               argument |-> "", result |-> None, calls |-> << >>, failed |-> 0]]

Init ==
    /\ clicked = None
    /\ alternative = NoAlternative
    /\ probe = NoProbe
    /\ pending = NoPending
    /\ window = NoWindow
    /\ _isCredit = None
    /\ _cache = None
    /\ _submittedShippingAddress = None
    /\ _currentShippingAddress = None
    /\ _shippingOptionId = None
    /\ _intent = None
    /\ buttons = None
    /\ _orderActionCreator \in BOOLEAN
    /\ engine \in Engines
    /\ recorded = FALSE
    /\ last = NoInvocation

\* initializationData of the payment method.
InitializationData ==
    [intent : {"capture", "authorize"}, isHosted : BOOLEAN,
     clientId : {None, Some("client")}]

\* Mutant of initialize: the client id is tested after the checkout is loaded.
initialize_LoadsFirst(initializationData, loaded, processorOk) ==
    /\ ~Unloaded
    /\ UNCHANGED others
    /\ UNCHANGED clicked
    /\ buttons = None
    /\ _intent' = Some(initializationData.intent)
    /\ _cache' = Some([countries |-> None])
    /\ recorded' = FALSE
    /\ UNCHANGED << _isCredit, _submittedShippingAddress, _currentShippingAddress,
                    _shippingOptionId, _orderActionCreator, engine >>
    /\ IF ~IsSome(loaded)
       THEN /\ buttons' = None
            /\ last' = Rejected(Invocation("initialize", Some(initializationData), None,
                                           None, None, "throw", "Error", << >>,
                                           << Call("loadDefaultCheckout", << >>) >>), 1)
       ELSE IF ~IsSome(initializationData.clientId)
       THEN /\ buttons' = None
            /\ last' = Invocation("initialize", Some(initializationData), None, None, None,
                                  "throw", "InvalidArgumentError", << >>,
                                  << Call("loadDefaultCheckout", << >>) >>)
       ELSE IF ~processorOk
       THEN /\ buttons' = None
            /\ last' = Rejected(Invocation("initialize", Some(initializationData), None,
                                           None, None, "throw", "Error", << >>,
                                           << Call("loadDefaultCheckout", << >>),
                                              Call("initialize", << >>) >>), 2)
       ELSE /\ buttons' = Some([isHosted |-> initializationData.isHosted,
                                cart |-> Val(loaded)])
            /\ last' = Invocation("initialize", Some(initializationData), None, None, None,
                                  "return", "", << >>,
                                  << Call("loadDefaultCheckout", << >>),
                                     Call("initialize", << >>),
                                     Call("renderButtons", << >>) >>)

\* Mutant of initialize: the buttons are rendered before the processor is
\* initialized.
initialize_RendersFirst(initializationData, loaded, processorOk) ==
    /\ ~Unloaded
    /\ UNCHANGED others
    /\ UNCHANGED clicked
    /\ buttons = None
    /\ _intent' = Some(initializationData.intent)
    /\ _cache' = Some([countries |-> None])
    /\ recorded' = FALSE
    /\ UNCHANGED << _isCredit, _submittedShippingAddress, _currentShippingAddress,
                    _shippingOptionId, _orderActionCreator, engine >>
    /\ IF ~IsSome(initializationData.clientId)
       THEN /\ buttons' = None
            /\ last' = Invocation("initialize", Some(initializationData), None, None, None,
                                  "throw", "InvalidArgumentError", << >>, << >>)
       ELSE IF ~IsSome(loaded)
       THEN /\ buttons' = None
            /\ last' = Rejected(Invocation("initialize", Some(initializationData), None,
                                           None, None, "throw", "Error", << >>,
                                           << Call("loadDefaultCheckout", << >>) >>), 1)
       ELSE IF ~processorOk
       THEN /\ buttons' = Some([isHosted |-> initializationData.isHosted,
                                cart |-> Val(loaded)])
            /\ last' = Rejected(Invocation("initialize", Some(initializationData), None,
                                           None, None, "throw", "Error", << >>,
                                           << Call("loadDefaultCheckout", << >>),
                                              Call("renderButtons", << >>),
                                              Call("initialize", << >>) >>), 3)
       ELSE /\ buttons' = Some([isHosted |-> initializationData.isHosted,
                                cart |-> Val(loaded)])
            /\ last' = Invocation("initialize", Some(initializationData), None, None, None,
                                  "return", "", << >>,
                                  << Call("loadDefaultCheckout", << >>),
                                     Call("renderButtons", << >>),
                                     Call("initialize", << >>) >>)

\* initialize(), lines 29-64.  loaded: the cart of loadDefaultCheckout(), or
\* undefined when it fails; processorOk: whether the processor initialized.
initialize(initializationData, loaded, processorOk) ==
    /\ ~Unloaded
    /\ UNCHANGED others
    /\ UNCHANGED clicked
    /\ buttons = None
    /\ _intent' = Some(initializationData.intent)
    /\ _cache' = Some([countries |-> None])
    /\ recorded' = FALSE
    /\ UNCHANGED << _isCredit, _submittedShippingAddress, _currentShippingAddress,
                    _shippingOptionId, _orderActionCreator, engine >>
    /\ IF ~IsSome(initializationData.clientId)
       THEN /\ buttons' = None
            /\ last' = Invocation("initialize", Some(initializationData), None, None, None,
                                  "throw", "InvalidArgumentError", << >>, << >>)
       ELSE IF ~IsSome(loaded)
       THEN /\ buttons' = None
            /\ last' = Rejected(Invocation("initialize", Some(initializationData), None,
                                           None, None, "throw", "Error", << >>,
                                           << Call("loadDefaultCheckout", << >>) >>), 1)
       ELSE IF ~processorOk
       THEN /\ buttons' = None
            /\ last' = Rejected(Invocation("initialize", Some(initializationData), None,
                                           None, None, "throw", "Error", << >>,
                                           << Call("loadDefaultCheckout", << >>),
                                              Call("initialize", << >>) >>), 2)
       ELSE /\ buttons' = Some([isHosted |-> initializationData.isHosted,
                                cart |-> Val(loaded)])
            /\ last' = Invocation("initialize", Some(initializationData), None, None, None,
                                  "return", "", << >>,
                                  << Call("loadDefaultCheckout", << >>),
                                     Call("initialize", << >>),
                                     Call("renderButtons", << >>) >>)

\* Mutant of deinitialize: _isCredit keeps its value.
deinitialize_KeepsIsCredit ==
    /\ ~Unloaded
    /\ UNCHANGED others
    /\ clicked' = None
    /\ buttons' = None
    /\ last' = Invocation("deinitialize", None, None, None, None, "return", "", << >>, << >>)
    /\ UNCHANGED << _isCredit, _cache, _submittedShippingAddress, _currentShippingAddress,
                    _shippingOptionId, _intent, _orderActionCreator, engine, recorded >>

\* deinitialize(), lines 66-70; the host takes the button away.
deinitialize ==
    /\ ~Unloaded
    /\ UNCHANGED others
    /\ clicked' = None
    /\ _isCredit' = None
    /\ buttons' = None
    /\ last' = Invocation("deinitialize", None, None, None, None, "return", "", << >>, << >>)
    /\ UNCHANGED << _cache, _submittedShippingAddress, _currentShippingAddress,
                    _shippingOptionId, _intent, _orderActionCreator, engine, recorded >>

\* Mutant of _handleClickButtonProvider: `paylater` is not taken for credit.
_handleClickButtonProvider_CreditOnly(fundingSource) ==
    /\ ~Unloaded
    /\ UNCHANGED others
    /\ clicked' = Some(fundingSource)
    /\ IsSome(buttons)
    /\ _isCredit' = Some(fundingSource = "credit")
    /\ last' = Invocation("onClick", Some([fundingSource |-> fundingSource]), None, None,
                          None, "return", "", << >>, << >>)
    /\ UNCHANGED << _cache, _submittedShippingAddress, _currentShippingAddress,
                    _shippingOptionId, _intent, buttons, _orderActionCreator, engine,
                    recorded >>

\* onClick, lines 72-74.
_handleClickButtonProvider(fundingSource) ==
    /\ ~Unloaded
    /\ UNCHANGED others
    /\ clicked' = Some(fundingSource)
    /\ IsSome(buttons)
    /\ _isCredit' = Some(fundingSource = "credit" \/ fundingSource = "paylater")
    /\ last' = Invocation("onClick", Some([fundingSource |-> fundingSource]), None, None,
                          None, "return", "", << >>, << >>)
    /\ UNCHANGED << _cache, _submittedShippingAddress, _currentShippingAddress,
                    _shippingOptionId, _intent, buttons, _orderActionCreator, engine,
                    recorded >>

\* The answers of getShippingOptions() the handler can meet for this event.
CheckoutsMet(data, getCountries) ==
    IF ~IsSome(buttons) THEN {}
    ELSE IF _transformToAddress(data.shipping_address, getCountries, _cache).threw
    THEN {None}
    ELSE { Some(c) : c \in Checkouts(Val(buttons).cart) }

\* onShippingChange, lines 45 and 136-239.
onShippingChange(data, getCountries, checkout) ==
    /\ ~Unloaded
    /\ UNCHANGED others
    /\ UNCHANGED clicked
    /\ IsSome(buttons)
    /\ \E r \in { _onShippingChangeHandler(data, getCountries, checkout,
                                            Val(buttons).cart, _cache,
                                            _currentShippingAddress,
                                            _submittedShippingAddress,
                                            _shippingOptionId, engine) } :
           /\ _cache' = r.cache
           /\ _currentShippingAddress' = r.current
           /\ _submittedShippingAddress' = r.submitted
           /\ _shippingOptionId' = r.optionId
           /\ recorded' = (recorded \/ r.outcome # "throw")
           /\ last' = Invocation("onShippingChange", Some(data), Some(getCountries), checkout,
                                 _submittedShippingAddress, r.outcome, r.error,
                                 r.patches, r.calls)
    /\ UNCHANGED << _isCredit, _intent, buttons, _orderActionCreator, engine >>

\* The awaited calls of _onShippingChangeHandler: getStoreCountries (line 252),
\* getShippingOptions (line 146) and the patch of the no-shipping branch (line
\* 150).  The patch of the normal branch (line 210) is not awaited: the handler
\* has called resolve() before that patch can be rejected, and never learns it.
AwaitedCalls == {"getStoreCountries", "getShippingOptions", "patch"}

\* _onShippingChangeHandler when the awaited call `rejected` is rejected; r is
\* what the handler does when no call is.
_onShippingChangeHandlerRejected(rejected, r, cache, current, submitted, optionId) ==
    IF rejected = "getStoreCountries"
    THEN [cache |-> cache, current |-> current, submitted |-> submitted,
          optionId |-> optionId, outcome |-> "throw", error |-> "Error",
          patches |-> << >>, calls |-> SubSeq(r.calls, 1, 1)]
    ELSE IF rejected = "getShippingOptions"
    THEN [cache |-> r.cache, current |-> r.current, submitted |-> submitted,
          optionId |-> optionId, outcome |-> "throw", error |-> "Error",
          patches |-> << >>, calls |-> SubSeq(r.calls, 1, 2)]
    ELSE [r EXCEPT !.outcome = "throw", !.error = "Error"]

\* onShippingChange with a rejected collaborator call.
onShippingChangeRejected(data, getCountries, checkout, rejected) ==
    /\ ~Unloaded
    /\ UNCHANGED others
    /\ UNCHANGED clicked
    /\ IsSome(buttons)
    /\ \E r \in { _onShippingChangeHandler(data, getCountries, checkout,
                                            Val(buttons).cart, _cache,
                                            _currentShippingAddress,
                                            _submittedShippingAddress,
                                            _shippingOptionId, engine) } :
           /\ IF rejected = "getStoreCountries" THEN TRUE
              ELSE IF rejected = "getShippingOptions" THEN Len(r.calls) >= 2
              ELSE r.outcome = "patch"
           /\ \E f \in { _onShippingChangeHandlerRejected(rejected, r, _cache,
                                                            _currentShippingAddress,
                                                            _submittedShippingAddress,
                                                            _shippingOptionId) } :
                  /\ _cache' = f.cache
                  /\ _currentShippingAddress' = f.current
                  /\ _submittedShippingAddress' = f.submitted
                  /\ _shippingOptionId' = f.optionId
                  /\ recorded' = (recorded \/ rejected # "getStoreCountries")
                  /\ last' = Rejected(Invocation("onShippingChange", Some(data),
                                                 Some(getCountries),
                                                 IF rejected = "patch" THEN checkout ELSE None,
                                                 _submittedShippingAddress, f.outcome,
                                                 f.error, f.patches, f.calls),
                                      Len(f.calls))
    /\ UNCHANGED << _isCredit, _intent, buttons, _orderActionCreator, engine >>

(***************************************************************************)
(* onApprove.                                                              *)
(***************************************************************************)
\* What actions.order.capture() / authorize() answers.
PayerDetails ==
    [payer |-> [name |-> [given_name |-> "Pat", surname |-> "Doe"],
                email_address |-> "pat@example.com"],
     purchase_units |-> << [shipping |-> [address |-> [address_line_1 |-> "1 Main St"]]] >>]

\* Lines 89-101.
_transformContactToAddress(details, address) ==
    [city |-> address.city, postalCode |-> address.postalCode,
     countryCode |-> address.countryCode,
     firstName |-> details.payer.name.given_name,
     lastName |-> details.payer.name.surname,
     email |-> details.payer.email_address,
     address1 |-> details.purchase_units[1].shipping.address.address_line_1]

\* The calls of _onHostedMethodApprove in order, when none of them fails.
HostedCalls(cart) ==
    LET shippingAddress ==
            _transformContactToAddress(PayerDetails, Val(_currentShippingAddress))
        lineItems == _collectLineItems(cart.lineItems)
    IN  << Call(IF _intent = Some("capture") THEN "capture" ELSE "authorize", << >>) >>
        \o (IF IsSome(_currentShippingAddress)
            THEN << Call("getConsignments",
                         << cart.id, << [shippingAddress |-> shippingAddress,
                                         lineItems |-> lineItems] >> >>),
                    Call("getBillingAddress", << cart.id, shippingAddress >>) >>
                 \o (IF IsSome(_shippingOptionId)
                     THEN << Call("putConsignments",
                                  << cart.id,
                                     [shippingOptionId |-> Val(_shippingOptionId)] >>) >>
                     ELSE << >>)
                 \o (IF _orderActionCreator
                     THEN << Call("submitOrder",
                                  << [methodId |-> "paypalcommerce", gatewayId |-> None] >>) >>
                     ELSE << >>)
                 \o << Call("deleteCart", << cart.id >>),
                       Call("assign", << "/checkout/order-confirmation" >>) >>
            ELSE << >>)

\* Mutant of _onHostedMethodApprove: authorize() whatever the intent.
_onHostedMethodApprove_AlwaysAuthorize(cart, failAt) ==
    LET all == << Call("authorize", << >>) >> \o Tail(HostedCalls(cart))
    IN  /\ failAt \in 0..Len(all)
        /\ IF failAt <= 1 THEN TRUE ELSE all[failAt].name # "assign"
        /\ last' = Rejected(Invocation("onApprove", None, None, None, None,
                                       IF failAt # 0 THEN "throw"
                                       ELSE IF IsSome(_currentShippingAddress) THEN "redirect"
                                       ELSE "return",
                                       IF failAt = 0 THEN ""
                                       ELSE IF failAt = 1 THEN "Error" ELSE "RequestError",
                                       << >>,
                                       IF failAt = 0 THEN all ELSE SubSeq(all, 1, failAt)),
                            failAt)

\* Mutant of _onHostedMethodApprove: a rejected call is tried a second time.
_onHostedMethodApprove_Retry(cart, failAt) ==
    LET all == HostedCalls(cart)
    IN  /\ failAt \in 0..Len(all)
        /\ IF failAt <= 1 THEN TRUE ELSE all[failAt].name # "assign"
        /\ last' = Rejected(Invocation("onApprove", None, None, None, None,
                                       IF failAt # 0 THEN "throw"
                                       ELSE IF IsSome(_currentShippingAddress) THEN "redirect"
                                       ELSE "return",
                                       IF failAt = 0 THEN ""
                                       ELSE IF failAt = 1 THEN "Error" ELSE "RequestError",
                                       << >>,
                                       IF failAt = 0 THEN all
                                       ELSE SubSeq(all, 1, failAt) \o << all[failAt] >>),
                            failAt)

\* _onHostedMethodApprove, lines 103-134.  failAt: the position of the call that
\* fails, 0 if none does (window.location.assign does not fail).
_onHostedMethodApprove(cart, failAt) ==
    LET all == HostedCalls(cart)
    IN  /\ failAt \in 0..Len(all)
        /\ IF failAt <= 1 THEN TRUE ELSE all[failAt].name # "assign"
        /\ last' = Rejected(Invocation("onApprove", None, None, None, None,
                                       IF failAt # 0 THEN "throw"
                                       ELSE IF IsSome(_currentShippingAddress) THEN "redirect"
                                       ELSE "return",
                                       IF failAt = 0 THEN ""
                                       ELSE IF failAt = 1 THEN "Error" ELSE "RequestError",
                                       << >>,
                                       IF failAt = 0 THEN all ELSE SubSeq(all, 1, failAt)),
                            failAt)

\* _tokenizePayment, lines 76-87.
_tokenizePayment(orderID) ==
    IF ~IsSome(orderID)
    THEN last' = Invocation("onApprove", Some([orderID |-> orderID]), None, None, None,
                            "throw", "MissingDataError", << >>, << >>)
    ELSE last' = Invocation("onApprove", Some([orderID |-> orderID]), None, None, None,
                            "formPost", "", << >>,
                            << Call("postForm",
                                    << "/checkout.php",
                                       [payment_type |-> "paypal",
                                        action |-> "set_external_checkout",
                                        provider |-> IF _isCredit = Some(TRUE)
                                                     THEN "paypalcommercecredit"
                                                     ELSE "paypalcommerce",
                                        order_id |-> Val(orderID)] >>) >>)

\* Mutant of onApprove: the hosted handler whatever isHosted.
onApprove_AlwaysHosted(orderID, failAt) ==
    /\ ~Unloaded
    /\ UNCHANGED others
    /\ UNCHANGED clicked
    /\ IsSome(buttons)
    /\ _onHostedMethodApprove(Val(buttons).cart, failAt)
    /\ UNCHANGED << _isCredit, _cache, _submittedShippingAddress, _currentShippingAddress,
                    _shippingOptionId, _intent, buttons, _orderActionCreator, engine,
                    recorded >>

\* onApprove, lines 42-43.
onApprove(orderID, failAt) ==
    /\ ~Unloaded
    /\ UNCHANGED others
    /\ UNCHANGED clicked
    /\ IsSome(buttons)
    /\ IF Val(buttons).isHosted
       THEN _onHostedMethodApprove(Val(buttons).cart, failAt)
       ELSE failAt = 0 /\ _tokenizePayment(orderID)
    /\ UNCHANGED << _isCredit, _cache, _submittedShippingAddress, _currentShippingAddress,
                    _shippingOptionId, _intent, buttons, _orderActionCreator, engine,
                    recorded >>

\* The calls of a hosted onApprove that can fail: 0 stands for none.
FailPoints == IF IsSome(buttons) THEN 0..Len(HostedCalls(Val(buttons).cart)) ELSE {0}

\* The shipping-change events of a session.
ShippingChangeEvents ==
    \E data \in ShippingChangeData, g \in StoreCountries :
        \E checkout \in CheckoutsMet(data, g) : onShippingChange(data, g, checkout)

(***************************************************************************)
(* Spec: the hosted integration with every shipping-change input.          *)
(***************************************************************************)
HostedInit ==
    /\ Init
    /\ _orderActionCreator

HostedNext ==
    \/ \E intent \in {"capture"}, c \in Carts :
          initialize([intent |-> intent, isHosted |-> TRUE, clientId |-> Some("client")],
                     Some(c), TRUE)
    \/ deinitialize
    \/ ShippingChangeEvents
    \/ \E failAt \in FailPoints : onApprove(Some("ORDER-1"), failAt)

Spec == HostedInit /\ [][HostedNext]_vars

(***************************************************************************)
(* ControllerSpec: every configuration of the controller (hosted or not,   *)
(* either intent, with or without a client id or an OrderActionCreator,    *)
(* failing initializations, the click handler), with the shipping-change   *)
(* events that carry no shopper selection.                                 *)
(***************************************************************************)
FundingSources == {"paypal", "credit", "paylater"}

\* onApprove with whatever order id the widget hands over.
ApproveEvents ==
    \E orderID \in {None, Some("ORDER-1")}, failAt \in FailPoints : onApprove(orderID, failAt)

\* The gateway returns no list, an empty list or one recommended option.
OneOptionAtMost(checkout) ==
    \/ ~IsSome(checkout)
    \/ Val(checkout).consignments[1].availableShippingOptions
           \in {None, Some(<< >>), Some(<< AvailableShippingOption("A", TRUE) >>)}

\* Shipping-change events without selected_shipping_option, for every contact.
PlainShippingChangeEvents ==
    \E contact \in Contacts, g \in StoreCountries :
        \E checkout \in { c \in CheckoutsMet([shipping_address |-> contact,
                                               selected_shipping_option |-> None], g) :
                              OneOptionAtMost(c) } :
            onShippingChange([shipping_address |-> contact,
                              selected_shipping_option |-> None], g, checkout)

\* Shipping-change events during which the gateway or the provider fails, for
\* a contact that translates.
RejectedShippingChangeEvents ==
    \E contact \in { c \in Contacts : c.city = "Austin" }, g \in StoreCountries,
       rejected \in AwaitedCalls :
        \E checkout \in { c \in CheckoutsMet([shipping_address |-> contact,
                                               selected_shipping_option |-> None], g) :
                              /\ OneOptionAtMost(c)
                              /\ rejected # "patch" =>
                                     Val(c).consignments[1].availableShippingOptions = None } :
            onShippingChangeRejected([shipping_address |-> contact,
                                      selected_shipping_option |-> None], g, checkout,
                                     rejected)

ControllerNext ==
    \/ \E d \in InitializationData, loaded \in {None} \cup {Some(c) : c \in Carts},
          processorOk \in BOOLEAN : initialize(d, loaded, processorOk)
    \/ deinitialize
    \/ \E fundingSource \in FundingSources : _handleClickButtonProvider(fundingSource)
    \/ PlainShippingChangeEvents
    \/ RejectedShippingChangeEvents
    \/ ApproveEvents

\* With one option at most every engine sorts alike.
ControllerInit ==
    /\ Init
    /\ engine = "TimSort"

ControllerSpec == ControllerInit /\ [][ControllerNext]_vars

(***************************************************************************)
(* Reading the latest invocation.                                          *)
(***************************************************************************)
IsShippingChange == last.op = "onShippingChange"

\* The event took the normal path: it resolved after the amount+options patch.
NormalPath == IsShippingChange /\ last.outcome = "resolve" /\ Len(last.patches) = 1

\* The amount object of a patch (its replace operation).
AmountOf(patch) == patch[1].value

\* The options list the normal path attached, and the places marked selected.
SentOptions == last.patches[1][2].value
SelectedSent == { i \in 1..Len(SentOptions) : SentOptions[i].selected }

\* What the gateway answered and what the event carried.
GatewayOptions == Val(Val(last.checkout).consignments[1].availableShippingOptions)
Recommended == { i \in 1..Len(GatewayOptions) : GatewayOptions[i].isRecommended }
EventSelection == Val(last.data).selected_shipping_option

\* The event carried a shopper selection and its translated address is the
\* address last submitted before it.
SelectionApplies ==
    IsSome(EventSelection) /\ _currentShippingAddress = last.submittedBefore

Least(S) == CHOOSE i \in S : \A j \in S : i <= j

TwoDecimals(mills) == [mills |-> ((mills + 5) \div 10) * 10, decimals |-> 2]

CallNames == { last.calls[i].name : i \in 1..Len(last.calls) }

ConsignmentChain ==
    {"getConsignments", "getBillingAddress", "putConsignments", "submitOrder",
     "deleteCart", "assign"}

(***************************************************************************)
(* C1.  Every amount patch of a shipping-change event, total-only or       *)
(* amount+options, has a top-level value that is, to two decimals, its     *)
(* breakdown item_total plus its breakdown shipping (0 when absent).       *)
(***************************************************************************)
C1_ValueIsSumOfBreakdown ==
    IsShippingChange =>
        \A k \in 1..Len(last.patches) :
            LET amount == AmountOf(last.patches[k])
                item == amount.breakdown.item_total.value
                shipping == IF "shipping" \in DOMAIN amount.breakdown
                            THEN amount.breakdown.shipping.value.mills
                            ELSE 0
            IN  amount.value = TwoDecimals(item + shipping)

\* Base 49.99 with option A (5.00) gave the amount 54.99.
C1_Witness ==
    /\ NormalPath
    /\ AmountOf(last.patches[1]).value = [mills |-> 54990, decimals |-> 2]
    /\ AmountOf(last.patches[1]).breakdown.shipping.value = [mills |-> 5000, decimals |-> 2]

(***************************************************************************)
(* C2.  After a normal-path event that marks exactly one option selected,  *)
(* _shippingOptionId is the id of that option, wherever it stood in the    *)
(* gateway's list; and a hosted onApprove passes the stored id to          *)
(* putConsignments.                                                        *)
(***************************************************************************)
C2_StoredIdIsTheSelectedOption ==
    /\ (NormalPath /\ Cardinality(SelectedSent) = 1) =>
           _shippingOptionId = Some(SentOptions[Least(SelectedSent)].id)
    /\ last.op = "onApprove" =>
           \A i \in 1..Len(last.calls) :
               last.calls[i].name = "putConsignments" =>
                   last.calls[i].args[2].shippingOptionId = Val(_shippingOptionId)

(***************************************************************************)
(* C3.  A checkout with a physical item and an empty list of options makes *)
(* the handler reject, and no patch is sent.                               *)
(***************************************************************************)
C3_RejectsWithoutPatch ==
    ( /\ IsShippingChange
      /\ IsSome(last.checkout)
      /\ Len(Val(last.checkout).cart.lineItems.physicalItems) >= 1
      /\ Val(last.checkout).consignments[1].availableShippingOptions = Some(<< >>) )
    => ( /\ last.outcome = "reject"
         /\ last.patches = << >>
         /\ "patch" \notin CallNames )

C3_Witness ==
    /\ IsShippingChange
    /\ IsSome(last.checkout)
    /\ Len(Val(last.checkout).cart.lineItems.physicalItems) >= 1
    /\ Val(last.checkout).consignments[1].availableShippingOptions = Some(<< >>)
    /\ last.outcome = "reject"

(***************************************************************************)
(* C4.  With no physical item in the checkout, an event whose address      *)
(* translates sends exactly one patch, a single amount replace whose value *)
(* is the base order amount, without a shipping key and without an options *)
(* add, and resolves no option: whatever options and selection it carries. *)
(***************************************************************************)
C4_TotalOnlyPatch ==
    ( /\ IsShippingChange
      /\ IsSome(last.checkout)
      /\ Len(Val(last.checkout).cart.lineItems.physicalItems) = 0 )
    => ( /\ last.outcome = "patch"
         /\ Len(last.patches) = 1
         /\ Len(last.patches[1]) = 1
         /\ last.patches[1][1].op = "replace"
         /\ AmountOf(last.patches[1]).value.mills = Val(buttons).cart.baseAmount
         /\ DOMAIN AmountOf(last.patches[1]).breakdown = {"item_total"}
         /\ "resolve" \notin CallNames
         /\ _submittedShippingAddress = last.submittedBefore )

\* A digital cart, with a list of options and a shopper selection in the event.
C4_Witness ==
    /\ IsShippingChange
    /\ IsSome(last.checkout)
    /\ Len(Val(last.checkout).cart.lineItems.physicalItems) = 0
    /\ IsSome(Val(last.checkout).consignments[1].availableShippingOptions)
    /\ Len(GatewayOptions) = 2
    /\ IsSome(EventSelection)
    /\ last.outcome = "patch"

(***************************************************************************)
(* C5.  In the normal path an option is marked selected iff its id is the  *)
(* shopper's selected id, when the event carries a selection and its       *)
(* translated address equals the last submitted address, and iff it is     *)
(* recommended otherwise; and in the first shipping-change event of a      *)
(* session (since the latest initialize()) a carried selection is not      *)
(* honoured.                                                               *)
(***************************************************************************)
C5_SelectionRule ==
    [][ ( /\ last'.op = "onShippingChange"
          /\ last'.outcome = "resolve"
          /\ Len(last'.patches) = 1 )
        => LET selection == Val(last'.data).selected_shipping_option
               applies == /\ IsSome(selection)
                          /\ _currentShippingAddress' = _submittedShippingAddress
               options == Val(Val(last'.checkout).consignments[1].availableShippingOptions)
               sent == last'.patches[1][2].value
           IN  /\ \A i \in 1..Len(options) : \A j \in 1..Len(sent) :
                      sent[j].id = options[i].id =>
                          sent[j].selected = IF applies
                                             THEN options[i].id = Val(selection).id
                                             ELSE options[i].isRecommended
               /\ ~recorded => ~applies
      ]_vars

(***************************************************************************)
(* C6.  With exactly one option recommended and no shopper selection       *)
(* applying to the current address, exactly one option is marked selected: *)
(* the recommended one.                                                    *)
(***************************************************************************)
C6_OneRecommendedOneSelected ==
    (NormalPath /\ ~SelectionApplies /\ Cardinality(Recommended) = 1)
    => ( /\ Cardinality(SelectedSent) = 1
         /\ SentOptions[Least(SelectedSent)].id = GatewayOptions[Least(Recommended)].id )

\* Two options, the second one recommended, and a selection that does not apply.
C6_Witness ==
    /\ NormalPath
    /\ ~SelectionApplies
    /\ IsSome(EventSelection)
    /\ Len(GatewayOptions) = 2
    /\ Recommended = {2}

(***************************************************************************)
(* C7.  With several options recommended and no shopper selection          *)
(* applying, the first recommended option wins: _shippingOptionId is its   *)
(* id and the shipping amount of the patch is its cost.                    *)
(***************************************************************************)
C7_FirstRecommendedWins ==
    (NormalPath /\ ~SelectionApplies /\ Cardinality(Recommended) >= 2)
    => ( /\ _shippingOptionId = Some(GatewayOptions[Least(Recommended)].id)
         /\ AmountOf(last.patches[1]).breakdown.shipping.value
                = TwoDecimals(GatewayOptions[Least(Recommended)].cost) )

(***************************************************************************)
(* C8.  In every amount+options patch the shipping amount of the breakdown *)
(* is the amount of the option marked selected in the same patch, in both  *)
(* branches, and "0.00" when no option is marked selected.                 *)
(***************************************************************************)
C8_ShippingIsSelectedCost ==
    NormalPath =>
        LET shipping == AmountOf(last.patches[1]).breakdown.shipping.value
        IN  /\ Cardinality(SelectedSent) = 1 =>
                   shipping = SentOptions[Least(SelectedSent)].amount.value
            /\ SelectedSent = {} => shipping = [mills |-> 0, decimals |-> 2]

(***************************************************************************)
(* C9.  Two shipping-change events in a row with the same data and the     *)
(* same gateway answers send equal patches.  As claimed: from every        *)
(* session state.  As amended: when the event carries no shopper           *)
(* selection, or the address last submitted before the first event is      *)
(* already the event's translated address.                                 *)
(***************************************************************************)
C9_Idempotent ==
    [][ (last'.op = "onShippingChange" /\ last'.repeats)
        => last'.patches = last.patches ]_vars

C9_IdempotentOnSubmittedAddress ==
    [][ ( /\ last'.op = "onShippingChange"
          /\ last'.repeats
          /\ \/ ~IsSome(Val(last.data).selected_shipping_option)
             \/ last.outcome = "throw"
             \/ _currentShippingAddress = last.submittedBefore )
        => last'.patches = last.patches ]_vars

\* The same event came twice, with a selection that was honoured.
C9_Witness ==
    /\ NormalPath
    /\ last.repeats
    /\ IsSome(EventSelection)
    /\ \E i \in SelectedSent : SentOptions[i].id = Val(EventSelection).id

(***************************************************************************)
(* C10.  A hosted onApprove runs the consignment chain (getConsignments,   *)
(* getBillingAddress, putConsignments, submitOrder, deleteCart, redirect)  *)
(* only if a shipping-change event since the latest initialize() recorded  *)
(* a shipping address.                                                     *)
(***************************************************************************)
C10_ChainOnlyAfterRecordedAddress ==
    (last.op = "onApprove" /\ CallNames \cap ConsignmentChain # {}) => recorded

(***************************************************************************)
(* Reading the latest on-approve and the latest address translation.       *)
(***************************************************************************)
IsApprove == last.op = "onApprove"

HostedApprove == IsApprove /\ IsSome(buttons) /\ Val(buttons).isHosted

\* The place of a step in the finalization sequence.
StepRank(name) ==
    CASE name \in {"capture", "authorize"} -> 1
      [] name = "getConsignments" -> 2
      [] name = "getBillingAddress" -> 3
      [] name = "putConsignments" -> 4
      [] name = "submitOrder" -> 5
      [] name = "deleteCart" -> 6
      [] name = "assign" -> 7
      [] OTHER -> 0

\* The event's contact and the address the handler translated it to.
EventContact == Val(last.data).shipping_address
Translated == IsShippingChange /\ last.failed = 0 /\ last.outcome # "throw"

\* The subdivision codes of the contact's country in a country table (none
\* when the table does not hold the country), and the state names of the
\* static table.
SubdivisionCodes(contact, table) ==
    { table.data[i].subdivisions[j].code :
          <<i, j>> \in { p \in (1..Len(table.data)) \X (1..2) :
                           /\ table.data[p[1]].code = toUpperCase(contact.country_code)
                           /\ p[2] <= Len(table.data[p[1]].subdivisions) } }

StateNames == { UNITED_STATES_CODES[i].name : i \in 1..Len(UNITED_STATES_CODES) }

Abbreviation(name) ==
    UNITED_STATES_CODES[CHOOSE i \in 1..Len(UNITED_STATES_CODES) :
                            UNITED_STATES_CODES[i].name = name].abbreviation

(***************************************************************************)
(* C11.  The calls of a hosted on-approve come in the order capture or     *)
(* authorize, getConsignments, getBillingAddress, putConsignments,         *)
(* submitOrder, deleteCart, redirect, and the redirect is issued only      *)
(* after order submission and cart deletion.                               *)
(***************************************************************************)
C11_FinalizationOrder ==
    HostedApprove =>
        /\ \A i, j \in 1..Len(last.calls) :
               i < j => StepRank(last.calls[i].name) < StepRank(last.calls[j].name)
        /\ "assign" \in CallNames => {"submitOrder", "deleteCart"} \subseteq CallNames

(***************************************************************************)
(* C12.  Every failure of a step of the hosted finalization, capture or    *)
(* authorize included, reaches the caller as a RequestError.               *)
(***************************************************************************)
C12_FailuresAreRequestErrors ==
    (HostedApprove /\ last.failed # 0) =>
        (last.outcome = "throw" /\ last.error = "RequestError")

(***************************************************************************)
(* C13.  An on-approve whose calls all return ends with the redirect or    *)
(* the form post issued, or with an error: it never just returns.          *)
(***************************************************************************)
C13_ApproveReachesTerminal ==
    (IsApprove /\ last.failed = 0) => last.outcome \in {"redirect", "formPost", "throw"}

(***************************************************************************)
(* C14.  After deinitialize() no field of the session holds a value.       *)
(***************************************************************************)
C14_DeinitializeDiscardsSession ==
    last.op = "deinitialize" =>
        /\ _isCredit = None
        /\ _intent = None
        /\ _currentShippingAddress = None
        /\ _submittedShippingAddress = None
        /\ _shippingOptionId = None
        /\ _cache = None

(***************************************************************************)
(* C15.  A shipping-change event whose contact has a country outside the   *)
(* country table, or a state that is neither a subdivision code of its     *)
(* country nor a US state name, fails with InvalidAddressError, calls      *)
(* neither getShippingOptions nor patch, reject or resolve, and leaves     *)
(* _currentShippingAddress, _submittedShippingAddress and                  *)
(* _shippingOptionId as they were.                                         *)
(***************************************************************************)
C15_UntranslatableAddressAborts ==
    [][ ( /\ last'.op = "onShippingChange"
          /\ last'.failed = 0
          /\ LET contact == Val(last'.data).shipping_address
                 codes == SubdivisionCodes(contact, Val(last'.getCountries))
             IN  \/ codes = {}
                 \/ toUpperCase(contact.state) \notin codes /\ contact.state \notin StateNames )
        => ( /\ last'.outcome = "throw"
             /\ last'.error = "InvalidAddressError"
             /\ \A i \in 1..Len(last'.calls) : last'.calls[i].name = "getStoreCountries"
             /\ last'.patches = << >>
             /\ UNCHANGED << _currentShippingAddress, _submittedShippingAddress,
                             _shippingOptionId >> )
      ]_vars

(***************************************************************************)
(* C16.  A contact whose state is a US state name translates to the        *)
(* subdivision whose code is the abbreviation of that name, and a contact  *)
(* whose state is a subdivision code, in any letter case, to the           *)
(* subdivision with that code.  (The handler keeps the code of the         *)
(* subdivision it found in the postalCode of the address, line 271.)       *)
(***************************************************************************)
C16_ResolvesToTheNamedSubdivision ==
    Translated =>
        LET codes == SubdivisionCodes(EventContact, Val(last.getCountries))
            found == Val(_currentShippingAddress).postalCode
        IN  /\ EventContact.state \in StateNames => found = Abbreviation(EventContact.state)
            /\ toUpperCase(EventContact.state) \in codes =>
                   found = toUpperCase(EventContact.state)

(***************************************************************************)
(* C17.  The address of a successful translation has the contact's city,   *)
(* postal_code and country_code as city, postalCode and countryCode, and a *)
(* stateOrRegionCode that is a subdivision code of that country.           *)
(***************************************************************************)
C17_AddressKeepsContactFields ==
    Translated =>
        LET address == Val(_currentShippingAddress)
        IN  /\ address.city = EventContact.city
            /\ address.postalCode = EventContact.postal_code
            /\ address.countryCode = EventContact.country_code
            /\ "stateOrRegionCode" \in DOMAIN address
            /\ address.stateOrRegionCode
                   \in SubdivisionCodes(EventContact, Val(last.getCountries))

(***************************************************************************)
(* C18.  Within a session getStoreCountries is called at most once: an     *)
(* event that finds the country table in the cache does not fetch it.      *)
(***************************************************************************)
C18_CountriesFetchedOnce ==
    [][ ( /\ last'.op = "onShippingChange"
          /\ IsSome(_cache)
          /\ IsSome(Val(_cache).countries) )
        => \A i \in 1..Len(last'.calls) : last'.calls[i].name # "getStoreCountries"
      ]_vars

(***************************************************************************)
(* C19.  A hosted on-approve calls exactly one of capture and authorize,   *)
(* once, as its first call: capture when the intent recorded by            *)
(* initialize() is "capture", authorize when it is "authorize".            *)
(***************************************************************************)
C19_CaptureOrAuthorizeByIntent ==
    HostedApprove =>
        /\ { i \in 1..Len(last.calls) : last.calls[i].name \in {"capture", "authorize"} } = {1}
        /\ _intent \in {Some("capture"), Some("authorize")}
        /\ _intent = Some("capture") => last.calls[1].name = "capture"
        /\ _intent = Some("authorize") => last.calls[1].name = "authorize"

\* An authorize intent, followed by the consignment chain.
C19_Witness ==
    /\ HostedApprove
    /\ _intent = Some("authorize")
    /\ last.calls[1].name = "authorize"
    /\ "getConsignments" \in CallNames
    /\ last.outcome = "redirect"

(***************************************************************************)
(* C20.  Within one callback invocation no collaborator operation is       *)
(* called twice, and a rejected call is the last call of the invocation.   *)
(***************************************************************************)
C20_NoRetries ==
    /\ \A i, j \in 1..Len(last.calls) : i < j => last.calls[i].name # last.calls[j].name
    /\ last.failed # 0 => (last.failed = Len(last.calls) /\ last.outcome = "throw")

\* submitOrder was rejected in a hosted on-approve: deleteCart and the redirect
\* were not called.
C20_Witness ==
    /\ HostedApprove
    /\ last.failed # 0
    /\ last.calls[last.failed].name = "submitOrder"
    /\ CallNames \cap {"deleteCart", "assign"} = {}

(***************************************************************************)
(* C21.  A shipping-change event that ends without an exception ends in    *)
(* one of three ways: reject with no patch sent; a total-only patch; or    *)
(* resolve after one patch holding the amount replace and the options add. *)
(* It never resolves without having sent a patch.                          *)
(***************************************************************************)
C21_ThreeOutcomes ==
    (IsShippingChange /\ last.outcome # "throw") =>
        \/ last.outcome = "reject" /\ last.patches = << >>
        \/ /\ last.outcome = "patch"
           /\ Len(last.patches) = 1
           /\ Len(last.patches[1]) = 1
           /\ last.patches[1][1].op = "replace"
        \/ /\ last.outcome = "resolve"
           /\ Len(last.patches) = 1
           /\ Len(last.patches[1]) = 2
           /\ last.patches[1][1].op = "replace"
           /\ last.patches[1][2].op = "add"

(***************************************************************************)
(* C23.  A non-hosted on-approve with an order id makes exactly one call:  *)
(* the form post to /checkout.php with payment_type "paypal", action       *)
(* "set_external_checkout" and that order id; it calls none of capture,    *)
(* authorize, the consignment operations, submitOrder, deleteCart and the  *)
(* redirect, whatever the shipping-change events recorded.                 *)
(***************************************************************************)
C23_NonHostedPostsTheForm ==
    ( /\ IsApprove
      /\ IsSome(buttons)
      /\ ~Val(buttons).isHosted
      /\ IsSome(last.data) => IsSome(Val(last.data).orderID) )
    => ( /\ IsSome(last.data)
         /\ Len(last.calls) = 1
         /\ last.calls[1].name = "postForm"
         /\ last.calls[1].args[1] = "/checkout.php"
         /\ last.calls[1].args[2].payment_type = "paypal"
         /\ last.calls[1].args[2].action = "set_external_checkout"
         /\ last.calls[1].args[2].order_id = Val(Val(last.data).orderID)
         /\ last.outcome = "formPost" )

\* A non-hosted on-approve after a shipping-change event recorded an address
\* and an option.
C23_Witness ==
    /\ IsApprove
    /\ IsSome(buttons)
    /\ ~Val(buttons).isHosted
    /\ IsSome(_currentShippingAddress)
    /\ IsSome(_shippingOptionId)
    /\ last.outcome = "formPost"

(***************************************************************************)
(* C24.  initialize() for a payment method without a client id fails with  *)
(* InvalidArgumentError before it loads the checkout, initializes the      *)
(* processor or renders a button.                                          *)
(***************************************************************************)
C24_NoClientIdFailsFirst ==
    (last.op = "initialize" /\ ~IsSome(Val(last.data).clientId)) =>
        /\ last.outcome = "throw"
        /\ last.error = "InvalidArgumentError"
        /\ last.calls = << >>
        /\ buttons = None

C24_Witness ==
    /\ last.op = "initialize"
    /\ ~IsSome(Val(last.data).clientId)
    /\ last.error = "InvalidArgumentError"

(***************************************************************************)
(* C25.  When loadDefaultCheckout() or the initialization of the processor *)
(* fails, initialize() fails with that error and renders no button; a      *)
(* button is rendered only after both succeeded, and the click,            *)
(* shipping-change and approve callbacks run only for a rendered button.   *)
(***************************************************************************)
C25_CallbacksAfterLoadAndProcessor ==
    /\ (last.op = "initialize" /\ last.failed # 0) =>
           /\ last.outcome = "throw"
           /\ last.error = "Error"
           /\ "renderButtons" \notin CallNames
           /\ buttons = None
    /\ (last.op = "initialize" /\ "renderButtons" \in CallNames) =>
           /\ last.failed = 0
           /\ [i \in 1..Len(last.calls) |-> last.calls[i].name]
                  = << "loadDefaultCheckout", "initialize", "renderButtons" >>
    /\ last.op \in {"onClick", "onShippingChange", "onApprove"} => IsSome(buttons)
    /\ IsSome(buttons) => last.op # "initialize" \/ "renderButtons" \in CallNames

\* The checkout was loaded and the processor failed.
C25_Witness ==
    /\ last.op = "initialize"
    /\ last.failed = 2
    /\ buttons = None

(***************************************************************************)
(* C26.  The click handler sets _isCredit to whether the funding source is *)
(* credit or paylater, changes no other field and no button, and calls no  *)
(* collaborator.                                                           *)
(***************************************************************************)
C26_ClickOnlySetsIsCredit ==
    [][ last'.op = "onClick"
        => ( /\ _isCredit' = Some(Val(last'.data).fundingSource \in {"credit", "paylater"})
             /\ last'.calls = << >>
             /\ last'.patches = << >>
             /\ UNCHANGED << _intent, _currentShippingAddress, _submittedShippingAddress,
                             _shippingOptionId, _cache, buttons >> )
      ]_vars

\* A paylater click after a shipping-change event recorded an option.
C26_Witness ==
    /\ last.op = "onClick"
    /\ Val(last.data).fundingSource = "paylater"
    /\ _isCredit = Some(TRUE)
    /\ IsSome(_shippingOptionId)

(***************************************************************************)
(* C27.  In the options list of the add operation every option marked      *)
(* selected comes before every option not marked selected, and options of  *)
(* equal selectedness are in the order of the gateway's list.              *)
(***************************************************************************)
C27_SelectedFirstStable ==
    NormalPath =>
        LET place(id) == CHOOSE i \in 1..Len(GatewayOptions) : GatewayOptions[i].id = id
        IN  \A i, j \in 1..Len(SentOptions) :
                i < j =>
                    /\ SentOptions[j].selected => SentOptions[i].selected
                    /\ SentOptions[i].selected = SentOptions[j].selected =>
                           place(SentOptions[i].id) < place(SentOptions[j].id)

(***************************************************************************)
(* CollectSpec: _collectLineItems applied to every LineItemMap of at most  *)
(* MaxItems digital and MaxItems physical items.                           *)
(***************************************************************************)
\* The lists of at most MaxItems distinct items out of the given ids.
ItemLists(ids) ==
    { l \in UNION { [1..n -> [id : ids, quantity : {1, 2}, name : {"item"}]] :
                        n \in 0..MaxItems } :
          \A i, j \in 1..Len(l) : i # j => l[i].id # l[j].id }

LineItemMaps ==
    [digitalItems : ItemLists({ <<"d1", "d2", "d3">>[i] : i \in 1..MaxItems }),
     physicalItems : ItemLists({ <<"p1", "p2", "p3">>[i] : i \in 1..MaxItems })]

collect(lineItems) ==
    /\ probe.input = Some(lineItems)
    /\ probe.output = None
    /\ probe' = [function |-> "_collectLineItems", input |-> Some(lineItems),
                 output |-> Some(_collectLineItems(lineItems))]
    /\ UNCHANGED << session, buttons, _orderActionCreator, engine, recorded, last,
                    clicked, alternative, pending, window >>

\* The strategy as constructed, and the cart's line items about to be collected.
CollectInit ==
    /\ _isCredit = None
    /\ _cache = None
    /\ _submittedShippingAddress = None
    /\ _currentShippingAddress = None
    /\ _shippingOptionId = None
    /\ _intent = None
    /\ buttons = None
    /\ _orderActionCreator = TRUE
    /\ engine = "TimSort"
    /\ recorded = FALSE
    /\ last = NoInvocation
    /\ clicked = None
    /\ alternative = NoAlternative
    /\ pending = NoPending
    /\ window = NoWindow
    /\ probe \in [function : {""}, input : { Some(l) : l \in LineItemMaps }, output : {None}]

CollectNext == \E lineItems \in LineItemMaps : collect(lineItems)

CollectSpec == CollectInit /\ [][CollectNext]_vars

(***************************************************************************)
(* C28.  _collectLineItems returns one {itemId, quantity} entry per item,  *)
(* with the item's id and quantity: the digital items in their order, then *)
(* the physical items in theirs; empty groups give no entry.               *)
(***************************************************************************)
C28_DigitalThenPhysical ==
    (probe.function = "_collectLineItems" /\ IsSome(probe.output)) =>
        LET digital == Val(probe.input).digitalItems
            physical == Val(probe.input).physicalItems
            entries == Val(probe.output)
        IN  /\ Len(entries) = Len(digital) + Len(physical)
            /\ \A i \in 1..Len(entries) : DOMAIN entries[i] = {"itemId", "quantity"}
            /\ \A i \in 1..Len(digital) :
                   /\ entries[i].itemId = digital[i].id
                   /\ entries[i].quantity = digital[i].quantity
            /\ \A i \in 1..Len(physical) :
                   /\ entries[Len(digital) + i].itemId = physical[i].id
                   /\ entries[Len(digital) + i].quantity = physical[i].quantity

\* Two digital and two physical items.
C28_Witness ==
    /\ probe.function = "_collectLineItems"
    /\ Len(Val(probe.input).digitalItems) = 2
    /\ Len(Val(probe.input).physicalItems) = 2
    /\ Len(Val(probe.output)) = 4
    /\ Val(probe.output)[1].itemId = "d2"
    /\ Val(probe.output)[4].itemId = "p1"

(***************************************************************************)
(* CacheSpec: sessions of the hosted integration in which the answer of    *)
(* getStoreCountries() can change from one shipping-change event to the    *)
(* next.                                                                   *)
(***************************************************************************)
CacheShippingChangeEvents ==
    \E contact \in Contacts, g \in CountryTables :
        \E checkout \in { c \in CheckoutsMet([shipping_address |-> contact,
                                               selected_shipping_option |-> None], g) :
                              OneOptionAtMost(c) } :
            onShippingChange([shipping_address |-> contact,
                              selected_shipping_option |-> None], g, checkout)

CacheInit ==
    /\ Init
    /\ _orderActionCreator
    /\ engine = "TimSort"

CacheNext ==
    \/ \E c \in Carts :
          initialize([intent |-> "capture", isHosted |-> TRUE, clientId |-> Some("client")],
                     Some(c), TRUE)
    \/ deinitialize
    \/ CacheShippingChangeEvents

CacheSpec == CacheInit /\ [][CacheNext]_vars

(***************************************************************************)
(* C30.  Once a shipping-change event has stored a country table in the    *)
(* cache, a later shipping-change event leaves the cache as it is and      *)
(* translates its address with the stored table, whatever the gateway      *)
(* answers now; initialize() leaves an empty cache.                        *)
(***************************************************************************)
C30_CountryCacheIsWriteOnce ==
    [][ /\ (/\ last'.op = "onShippingChange"
            /\ IsSome(_cache)
            /\ IsSome(Val(_cache).countries)) =>
               /\ _cache' = _cache
               /\ LET found == stateAddressOf[Val(last'.data).shipping_address,
                                              Val(Val(_cache).countries)]
                  IN  IF IsSome(found)
                      THEN /\ last'.outcome # "throw"
                           /\ Val(_currentShippingAddress').postalCode = Val(found).code
                      ELSE /\ last'.outcome = "throw"
                           /\ last'.error = "InvalidArgumentError"
        /\ (last'.op = "initialize") => (_cache' = Some([countries |-> None])) ]_vars

\* A Fresno address is translated with the cached table although the gateway
\* now answers a table without California.
C30_Witness ==
    /\ last.op = "onShippingChange"
    /\ IsSome(_cache)
    /\ IsSome(Val(_cache).countries)
    /\ Val(_cache).countries # last.getCountries
    /\ Val(last.data).shipping_address.city = "Fresno"
    /\ last.outcome # "throw"
    /\ IsSome(_currentShippingAddress)
    /\ Val(_currentShippingAddress).postalCode = "CA"

(***************************************************************************)
(* PaypalCommerceAlternativeMethodsButtonStrategy.                         *)
(*                                                                         *)
(* `alternative` holds its _paypalCommerceSdk field, the button whose      *)
(* callbacks the widget can call (once rendered), the container element    *)
(* and the record of its latest invocation: the operation, its input, the  *)
(* outcome, the error's class and the argument its message names, and the  *)
(* calls made on the collaborators.                                        *)
(***************************************************************************)
main == << session, buttons, _orderActionCreator, engine, recorded, last, clicked >>

\* The page was left by the form post of the alternative-methods button.
AlternativeUnloaded == alternative.last.outcome = "formPost"

\* CheckoutButtonInitializeOptions as far as initialize() reads them.
AlternativeOptions ==
    [methodId : {None, Some("paypalcommercealternativemethods")},
     containerId : {None, Some("apm-container")},
     paypalcommercealternativemethods :
         {None} \cup { Some(o) : o \in [apm : {None, Some("sepa"), Some("bogus")},
                                        initializesOnCheckoutPage : BOOLEAN] }]

\* What initialize() meets: whether loadDefaultCheckout() resolves, whether
\* loadPaypalCommerce() is rejected, resolves without an SDK or resolves with
\* the SDK, and the answer of isEligible().
AlternativeEnvironments ==
    [checkout : BOOLEAN, sdk : {"rejected", "undefined", "loaded"}, eligible : BOOLEAN]

\* Object.values(paypalCommerceSdk.FUNDING)
FUNDING == {"sepa", "ideal", "bancontact"}

AlternativeInvocation(op, input, outcome, error, argument, calls) ==
    [op |-> op, input |-> input, environment |-> None, outcome |-> outcome,
     error |-> error, argument |-> argument, calls |-> calls]

\* _removeElement, lines 125-131: the element is removed if there is one.
_removeElement(container) == IF container = "missing" THEN "missing" ELSE "removed"

\* Mutant of _renderButton: the button is rendered without asking isEligible().
_renderButton_RendersAnyway(options, sdk, eligible, calls) ==
    LET methods == Val(options.paypalcommercealternativemethods)
        apm == Val(methods.apm)
    IN  IF ~IsSome(sdk)
        THEN [alternative EXCEPT
                 !._paypalCommerceSdk = sdk,
                 !.last = AlternativeInvocation("initialize", Some(options), "throw",
                              "PaymentMethodClientUnavailableError", "", calls)]
        ELSE IF apm \notin FUNDING
        THEN [alternative EXCEPT
                 !._paypalCommerceSdk = sdk,
                 !.last = AlternativeInvocation("initialize", Some(options), "throw",
                              "InvalidArgumentError",
                              "options.paypalcommercealternativemethods.apm",
                              calls)]
        ELSE [_paypalCommerceSdk |-> sdk,
              button |-> Some([fundingSource |-> apm,
                               methodId |-> Val(options.methodId),
                               initializesOnCheckoutPage |->
                                   methods.initializesOnCheckoutPage]),
              container |-> "button",
              last |-> AlternativeInvocation("initialize", Some(options), "return", "", "",
                           calls \o << Call("Buttons", << apm >>),
                                       Call("render", << Val(options.containerId) >>) >>)]

\* _renderButton after `calls`, lines 55-85: the strategy after the call.
_renderButton(options, sdk, eligible, calls) ==
    LET methods == Val(options.paypalcommercealternativemethods)
        apm == Val(methods.apm)
    IN  IF ~IsSome(sdk)
        THEN [alternative EXCEPT
                 !._paypalCommerceSdk = sdk,
                 !.last = AlternativeInvocation("initialize", Some(options), "throw",
                              "PaymentMethodClientUnavailableError", "", calls)]
        ELSE IF apm \notin FUNDING
        THEN [alternative EXCEPT
                 !._paypalCommerceSdk = sdk,
                 !.last = AlternativeInvocation("initialize", Some(options), "throw",
                              "InvalidArgumentError",
                              "options.paypalcommercealternativemethods.apm",
                              calls)]
        ELSE IF eligible
        THEN [_paypalCommerceSdk |-> sdk,
              button |-> Some([fundingSource |-> apm,
                               methodId |-> Val(options.methodId),
                               initializesOnCheckoutPage |->
                                   methods.initializesOnCheckoutPage]),
              container |-> "button",
              last |-> AlternativeInvocation("initialize", Some(options), "return", "", "",
                           calls \o << Call("Buttons", << apm >>),
                                       Call("isEligible", << >>),
                                       Call("render", << Val(options.containerId) >>) >>)]
        ELSE [_paypalCommerceSdk |-> sdk,
              button |-> None,
              container |-> _removeElement(alternative.container),
              last |-> AlternativeInvocation("initialize", Some(options), "return", "", "",
                           calls \o << Call("Buttons", << apm >>),
                                       Call("isEligible", << >>) >>)]

\* Mutant of Alternative_initialize: the options are tested after the loads.
Alternative_initialize_LoadsFirst(options, environment) ==
    /\ ~AlternativeUnloaded
    /\ alternative.container = "empty"
    /\ UNCHANGED << main, probe, pending, window >>
    /\ LET methods == options.paypalcommercealternativemethods
           apm == IF IsSome(methods) THEN Val(methods).apm ELSE None
           loadDefaultCheckout == Call("loadDefaultCheckout", << >>)
           loadPaypalCommerce == Call("loadPaypalCommerce", << >>)
           Fails(error, argument, calls) ==
               [alternative EXCEPT
                   !.last = AlternativeInvocation("initialize", Some(options), "throw",
                                                  error, argument, calls)]
           after ==
               IF ~environment.checkout
               THEN Fails("Error", "", << loadDefaultCheckout >>)
               ELSE IF environment.sdk = "rejected"
               THEN Fails("Error", "", << loadDefaultCheckout, loadPaypalCommerce >>)
               ELSE IF ~IsSome(options.methodId)
               THEN Fails("InvalidArgumentError", "options.methodId",
                          << loadDefaultCheckout, loadPaypalCommerce >>)
               ELSE IF ~IsSome(options.containerId)
               THEN Fails("InvalidArgumentError", "options.containerId",
                          << loadDefaultCheckout, loadPaypalCommerce >>)
               ELSE IF ~IsSome(methods)
               THEN Fails("InvalidArgumentError", "options.paypalcommercealternativemethods",
                          << loadDefaultCheckout, loadPaypalCommerce >>)
               ELSE IF ~IsSome(apm)
               THEN Fails("InvalidArgumentError",
                          "options.paypalcommercealternativemethods.apm",
                          << loadDefaultCheckout, loadPaypalCommerce >>)
               ELSE _renderButton(options,
                                  IF environment.sdk = "loaded"
                                  THEN Some("paypal-sdk") ELSE None,
                                  environment.eligible,
                                  << loadDefaultCheckout, loadPaypalCommerce >>)
       IN  alternative' = [after EXCEPT !.last.environment = Some(environment)]

\* initialize(), lines 23-49, called for a container that holds no button yet.
Alternative_initialize(options, environment) ==
    /\ ~AlternativeUnloaded
    /\ alternative.container = "empty"
    /\ UNCHANGED << main, probe, pending, window >>
    /\ LET methods == options.paypalcommercealternativemethods
           apm == IF IsSome(methods) THEN Val(methods).apm ELSE None
           loadDefaultCheckout == Call("loadDefaultCheckout", << >>)
           loadPaypalCommerce == Call("loadPaypalCommerce", << >>)
           Fails(error, argument, calls) ==
               [alternative EXCEPT
                   !.last = AlternativeInvocation("initialize", Some(options), "throw",
                                                  error, argument, calls)]
           after ==
               IF ~IsSome(options.methodId)
               THEN Fails("InvalidArgumentError", "options.methodId", << >>)
               ELSE IF ~IsSome(options.containerId)
               THEN Fails("InvalidArgumentError", "options.containerId", << >>)
               ELSE IF ~IsSome(methods)
               THEN Fails("InvalidArgumentError", "options.paypalcommercealternativemethods",
                          << >>)
               ELSE IF ~IsSome(apm)
               THEN Fails("InvalidArgumentError",
                          "options.paypalcommercealternativemethods.apm", << >>)
               ELSE IF ~environment.checkout
               THEN Fails("Error", "", << loadDefaultCheckout >>)
               ELSE IF environment.sdk = "rejected"
               THEN Fails("Error", "", << loadDefaultCheckout, loadPaypalCommerce >>)
               ELSE _renderButton(options,
                                  IF environment.sdk = "loaded"
                                  THEN Some("paypal-sdk") ELSE None,
                                  environment.eligible,
                                  << loadDefaultCheckout, loadPaypalCommerce >>)
       IN  alternative' = [after EXCEPT !.last.environment = Some(environment)]

\* deinitialize(), lines 51-53: nothing is undone.
Alternative_deinitialize ==
    /\ ~AlternativeUnloaded
    /\ alternative' =
           [alternative EXCEPT
               !.last = AlternativeInvocation("deinitialize", None, "return", "", "", << >>)]
    /\ UNCHANGED << main, probe, pending, window >>

\* createOrder of the rendered button, lines 74 and 87-96.
Alternative_createOrder(created) ==
    /\ ~AlternativeUnloaded
    /\ IsSome(alternative.button)
    /\ alternative' =
           [alternative EXCEPT
               !.last = AlternativeInvocation("createOrder", None,
                            IF created THEN "return" ELSE "throw",
                            IF created THEN "" ELSE "Error", "",
                            << Call("createOrder",
                                    << IF Val(alternative.button).initializesOnCheckoutPage
                                       THEN "paypalcommercealternativemethodscheckout"
                                       ELSE "paypalcommercealternativemethod" >>) >>)]
    /\ UNCHANGED << main, probe, pending, window >>

\* Mutant of Alternative_tokenizePayment: the form is posted whatever the order id.
Alternative_tokenizePayment_PostsAnyway(methodId, orderId) ==
    AlternativeInvocation("onApprove", Some([orderID |-> orderId]), "formPost", "", "",
        << Call("postForm",
                << "/checkout.php",
                   [payment_type |-> "paypal", action |-> "set_external_checkout",
                    provider |-> methodId, order_id |-> orderId] >>) >>)

\* _tokenizePayment, lines 98-109: the record of the invocation.
Alternative_tokenizePayment(methodId, orderId) ==
    IF ~IsSome(orderId)
    THEN AlternativeInvocation("onApprove", Some([orderID |-> orderId]), "throw",
                               "MissingDataError", "", << >>)
    ELSE AlternativeInvocation("onApprove", Some([orderID |-> orderId]), "formPost", "", "",
             << Call("postForm",
                     << "/checkout.php",
                        [payment_type |-> "paypal", action |-> "set_external_checkout",
                         provider |-> methodId, order_id |-> Val(orderId)] >>) >>)

\* onApprove of the rendered button, line 75.
Alternative_onApprove(orderID) ==
    /\ ~AlternativeUnloaded
    /\ IsSome(alternative.button)
    /\ alternative' =
           [alternative EXCEPT
               !.last = Alternative_tokenizePayment(Val(alternative.button).methodId,
                                                    orderID)]
    /\ UNCHANGED << main, probe, pending, window >>

(***************************************************************************)
(* ButtonsSpec: both button strategies on one page, without shipping-      *)
(* change events.                                                          *)
(***************************************************************************)
ButtonsInit ==
    /\ Init
    /\ _orderActionCreator
    /\ engine = "TimSort"

ButtonsNext ==
    \/ \E isHosted \in BOOLEAN :
          initialize([intent |-> "capture", isHosted |-> isHosted,
                      clientId |-> Some("client")],
                     Some(CHOOSE c \in Carts : c.id = "cart-physical"), TRUE)
    \/ deinitialize
    \/ \E fundingSource \in FundingSources : _handleClickButtonProvider(fundingSource)
    \/ \E orderID \in {None, Some("ORDER-1")} : onApprove(orderID, 0)
    \/ \E options \in AlternativeOptions, environment \in AlternativeEnvironments :
          Alternative_initialize(options, environment)
    \/ Alternative_deinitialize
    \/ \E created \in BOOLEAN : Alternative_createOrder(created)
    \/ \E orderID \in {None, Some("ORDER-1")} : Alternative_onApprove(orderID)

ButtonsSpec == ButtonsInit /\ [][ButtonsNext]_vars

(***************************************************************************)
(* C22.  An on-approve callback without an order id fails with             *)
(* MissingDataError and posts no form, for the non-hosted button of        *)
(* PaypalCommerceButtonStrategy and for the button of                      *)
(* PaypalCommerceAlternativeMethodsButtonStrategy.                         *)
(***************************************************************************)
C22_NoOrderIdNoFormPost ==
    /\ ( /\ last.op = "onApprove"
         /\ IsSome(buttons)
         /\ ~Val(buttons).isHosted
         /\ ~IsSome(Val(last.data).orderID) )
       => ( /\ last.outcome = "throw"
            /\ last.error = "MissingDataError"
            /\ last.calls = << >> )
    /\ ( /\ alternative.last.op = "onApprove"
         /\ ~IsSome(Val(alternative.last.input).orderID) )
       => ( /\ alternative.last.outcome = "throw"
            /\ alternative.last.error = "MissingDataError"
            /\ alternative.last.calls = << >> )

\* Both buttons were approved without an order id.
C22_Witness ==
    /\ last.op = "onApprove"
    /\ IsSome(buttons)
    /\ ~Val(buttons).isHosted
    /\ ~IsSome(Val(last.data).orderID)
    /\ alternative.last.op = "onApprove"
    /\ ~IsSome(Val(alternative.last.input).orderID)
    /\ alternative.last.error = "MissingDataError"

(***************************************************************************)
(* C29.  initialize() of the alternative-methods strategy fails with       *)
(* InvalidArgumentError naming the first missing one of methodId,          *)
(* containerId, the paypalcommercealternativemethods options and its apm,  *)
(* and has then made no call: the checkout is not loaded, the SDK is not   *)
(* loaded, no button is rendered and the container is left alone.          *)
(***************************************************************************)
C29_MissingOptionsFailFirst ==
    LET options == Val(alternative.last.input)
        methods == options.paypalcommercealternativemethods
        missing ==
            IF ~IsSome(options.methodId) THEN "options.methodId"
            ELSE IF ~IsSome(options.containerId) THEN "options.containerId"
            ELSE IF ~IsSome(methods) THEN "options.paypalcommercealternativemethods"
            ELSE IF ~IsSome(Val(methods).apm)
            THEN "options.paypalcommercealternativemethods.apm"
            ELSE ""
    IN  (alternative.last.op = "initialize" /\ missing # "") =>
            /\ alternative.last.outcome = "throw"
            /\ alternative.last.error = "InvalidArgumentError"
            /\ alternative.last.argument = missing
            /\ alternative.last.calls = << >>
            /\ alternative.button = None
            /\ alternative.container = "empty"

\* initialize() without a container id and without options, after an earlier
\* initialize() had loaded the SDK.
C29_Witness ==
    /\ alternative.last.op = "initialize"
    /\ IsSome(Val(alternative.last.input).methodId)
    /\ ~IsSome(Val(alternative.last.input).containerId)
    /\ ~IsSome(Val(alternative.last.input).paypalcommercealternativemethods)
    /\ alternative.last.argument = "options.containerId"
    /\ IsSome(alternative._paypalCommerceSdk)

(***************************************************************************)
(* C31.  Between callbacks, whenever _shippingOptionId holds a value,      *)
(* _currentShippingAddress equals _submittedShippingAddress: the stored    *)
(* option id was resolved from the options of the address a hosted         *)
(* on-approve would create the consignment with.                           *)
(***************************************************************************)
C31_OptionIdBelongsToCurrentAddress ==
    IsSome(_shippingOptionId) => _currentShippingAddress = _submittedShippingAddress

(***************************************************************************)
(* C32.  A shipping-change event changes _shippingOptionId only to the id  *)
(* of an option that its own options patch marks selected; an event whose  *)
(* patch marks no option selected, or that sends no options patch, leaves  *)
(* the stored id as it was.                                                *)
(***************************************************************************)
C32_StoredIdOnlyOfASelectedOption ==
    [][ (last'.op = "onShippingChange" /\ _shippingOptionId' # _shippingOptionId) =>
            /\ last'.outcome = "resolve"
            /\ Len(last'.patches) = 1
            /\ \E i \in 1..Len(last'.patches[1][2].value) :
                   /\ last'.patches[1][2].value[i].selected
                   /\ last'.patches[1][2].value[i].id = Val(_shippingOptionId') ]_vars

(***************************************************************************)
(* ConcurrentSpec: two shipping-change events whose handlers overlap.      *)
(*                                                                         *)
(* _onShippingChangeHandler is suspended at its awaits: in                 *)
(* getStoreCountries() (line 252, reached from line 139) and in            *)
(* getShippingOptions() (line 146).  Between two awaits it runs without    *)
(* interruption.  pending[h] holds where handler h is, its event, the      *)
(* address translated from its event, the address its equality test read,  *)
(* and what it assigned to _submittedShippingAddress and _shippingOptionId.*)
(***************************************************************************)
\* Lines 147-237, run when getShippingOptions() has answered `checkout`:
\* `current` and `submitted` are the fields as the handler reads them then.
_onShippingChangeHandlerAfterOptions(data, checkout, cart, current, submitted, optionId, eng) ==
    LET availableShippingOptions == checkout.consignments[1].availableShippingOptions
        options == Val(availableShippingOptions)
        shippingAmount ==
            ShippingAmountAfter(options, Len(options), toFixed2(0), data, current, submitted)
        shippingOptions ==
            sort([i \in 1..Len(options) |->
                     PaypalShippingOption(options[i], data, current, submitted)], eng)
    IN  IF ~shippingRequired(checkout)
        THEN [submitted |-> submitted, optionId |-> optionId, outcome |-> "patch",
              patches |-> << TotalPatch(cart.baseAmount) >>]
        ELSE IF NoShippingOptions(availableShippingOptions)
        THEN [submitted |-> submitted, optionId |-> optionId, outcome |-> "reject",
              patches |-> << >>]
        ELSE IF IsSome(availableShippingOptions) /\ Len(options) = 0
        THEN [submitted |-> submitted, optionId |-> optionId, outcome |-> "throw",
              patches |-> << >>]
        ELSE IF IsSome(availableShippingOptions)
        THEN [submitted |-> current, optionId |-> Some(shippingOptions[1].id),
              outcome |-> "resolve",
              patches |-> << AmountAndOptionsPatch(cart.baseAmount, shippingAmount,
                                                   shippingOptions) >>]
        ELSE [submitted |-> current, optionId |-> optionId, outcome |-> "resolve",
              patches |-> << >>]

\* The widget calls onShippingChange: the handler runs up to line 252 and is
\* suspended in getStoreCountries().
ShippingChangeStarts(h, data) ==
    /\ IsSome(buttons)
    /\ pending[h].pc = "idle"
    /\ pending' = [pending EXCEPT ![h].pc = "getStoreCountries", ![h].data = Some(data)]
    /\ UNCHANGED << main, alternative, probe, window >>

\* getStoreCountries() answers: lines 253-276, then the assignment of line 139
\* and the call of line 146, in which the handler is suspended again.
GetStoreCountriesResolves(h, getCountries) ==
    /\ pending[h].pc = "getStoreCountries"
    /\ \E t \in { _transformToAddress(Val(pending[h].data).shipping_address,
                                      getCountries, _cache) } :
           /\ _cache' = t.cache
           /\ IF t.threw
              THEN /\ pending' = [pending EXCEPT ![h].pc = "done", ![h].outcome = "throw"]
                   /\ UNCHANGED << _currentShippingAddress, recorded >>
              ELSE /\ pending' = [pending EXCEPT ![h].pc = "getShippingOptions",
                                                 ![h].address = t.address]
                   /\ _currentShippingAddress' = t.address
                   /\ recorded' = TRUE
    /\ UNCHANGED << _isCredit, _submittedShippingAddress, _shippingOptionId, _intent,
                    buttons, _orderActionCreator, engine, last, clicked, alternative,
                    probe, window >>

\* getShippingOptions() answers: lines 147-237.
GetShippingOptionsResolves(h, checkout) ==
    /\ pending[h].pc = "getShippingOptions"
    /\ \E r \in { _onShippingChangeHandlerAfterOptions(Val(pending[h].data), checkout,
                                                       Val(buttons).cart,
                                                       _currentShippingAddress,
                                                       _submittedShippingAddress,
                                                       _shippingOptionId, engine) } :
           /\ _submittedShippingAddress' = r.submitted
           /\ _shippingOptionId' = r.optionId
           /\ pending' = [pending EXCEPT
                             ![h].pc = "done",
                             ![h].tested = _currentShippingAddress,
                             ![h].outcome = r.outcome,
                             ![h].submitted =
                                 IF r.outcome = "resolve" THEN r.submitted ELSE None,
                             ![h].optionId =
                                 IF r.outcome = "resolve" /\ Len(r.patches) = 1
                                 THEN r.optionId ELSE None]
    /\ UNCHANGED << _isCredit, _cache, _currentShippingAddress, _intent, buttons,
                    _orderActionCreator, engine, recorded, last, clicked, alternative,
                    probe, window >>

ConcurrentInit ==
    /\ Init
    /\ _orderActionCreator
    /\ engine = "TimSort"

ConcurrentNext ==
    \/ initialize([intent |-> "capture", isHosted |-> TRUE, clientId |-> Some("client")],
                  Some(CHOOSE c \in Carts : c.id = "cart-physical"), TRUE)
    \/ \E h \in Handlers, data \in ShippingChangeData : ShippingChangeStarts(h, data)
    \/ \E h \in Handlers, g \in StoreCountries : GetStoreCountriesResolves(h, g)
    \/ \E h \in Handlers :
          \E c \in (IF IsSome(buttons) THEN Checkouts(Val(buttons).cart) ELSE {}) :
              GetShippingOptionsResolves(h, c)

ConcurrentSpec == ConcurrentInit /\ [][ConcurrentNext]_vars

(***************************************************************************)
(* C33.  Whatever a second handler does while a handler is suspended, the  *)
(* handler tests address equality with the address translated from its own *)
(* event and, when it resolves, records that address as                    *)
(* _submittedShippingAddress; so when both handlers are done,              *)
(* _submittedShippingAddress and _shippingOptionId were written by the     *)
(* same event.                                                             *)
(***************************************************************************)
C33_HandlerKeepsItsOwnAddress ==
    /\ \A h \in Handlers :
           (pending[h].pc = "done" /\ pending[h].outcome # "throw") =>
               /\ pending[h].tested = pending[h].address
               /\ pending[h].outcome = "resolve" =>
                      pending[h].submitted = pending[h].address
    /\ ( /\ \A h \in Handlers : pending[h].pc = "done"
         /\ \E h \in Handlers : IsSome(pending[h].optionId) )
       => \E h \in Handlers :
              /\ pending[h].outcome = "resolve"
              /\ pending[h].submitted = _submittedShippingAddress
              /\ pending[h].optionId = _shippingOptionId

(***************************************************************************)
(* C34.  A hosted on-approve that ends with a RequestError has not         *)
(* submitted the order: submitOrder was not called, or it is the call that *)
(* was rejected.                                                           *)
(***************************************************************************)
C34_RequestErrorMeansNotSubmitted ==
    (HostedApprove /\ last.outcome = "throw" /\ last.error = "RequestError") =>
        \A i \in 1..Len(last.calls) :
            last.calls[i].name = "submitOrder" => last.failed = i

(***************************************************************************)
(* C35.  The provider of the non-hosted form post is "paypalcommercecredit"*)
(* when the latest click since the latest deinitialize() reported the      *)
(* funding source credit or paylater, and "paypalcommerce" otherwise: no   *)
(* click yet, a later click with another funding source, or a              *)
(* deinitialize() after the click.                                         *)
(***************************************************************************)
C35_ProviderFollowsTheLatestClick ==
    (IsApprove /\ last.outcome = "formPost") =>
        last.calls[1].args[2].provider =
            IF IsSome(clicked) /\ Val(clicked) \in {"credit", "paylater"}
            THEN "paypalcommercecredit"
            ELSE "paypalcommerce"

\* The form post after a click on Pay Later.
C35_Witness ==
    /\ IsApprove
    /\ last.outcome = "formPost"
    /\ clicked = Some("paylater")
    /\ last.calls[1].args[2].provider = "paypalcommercecredit"

(***************************************************************************)
(* PaypalCommerceScriptLoader.                                             *)
(*                                                                         *)
(* `window` holds window.paypal (the SDK, which remembers the parameters   *)
(* it was configured with), whether window.paypalLoadScript is defined,    *)
(* and the record of the latest loadPaypalCommerce call: its parameters,   *)
(* the outcome, the error's class and the argument its message names, the  *)
(* SDK returned, the calls made and which of them was rejected (0: none).  *)
(***************************************************************************)
\* PaypalCommerceScriptParams as far as the loader reads them, or no object.
ScriptParams ==
    {None} \cup { Some(p) : p \in [client_id : {None, Some("client")},
                                   merchant_id : {None, Some("merchant-1"),
                                                  Some("merchant-2")},
                                   currency : {"USD", "EUR"},
                                   intent : {"capture", "authorize"}] }

\* What a call meets: whether loadScript() resolves, whether the script it
\* loads defines window.paypalLoadScript, whether paypalLoadScript() resolves
\* and whether it defines window.paypal.
ScriptEnvironments ==
    [loadScript : BOOLEAN, definesPaypalLoadScript : BOOLEAN,
     paypalLoadScript : BOOLEAN, definesPaypal : BOOLEAN]

\* _validateParams, lines 373-389: the parameter the error names, "" if none.
_validateParams(options) ==
    IF ~IsSome(options) THEN "options"
    ELSE IF ~IsSome(Val(options).client_id) THEN "client-id"
    ELSE IF ~IsSome(Val(options).merchant_id) THEN "merchant-id"
    ELSE ""

LoaderInvocation(params, outcome, error, argument, result, calls, failed) ==
    [op |-> "loadPaypalCommerce", params |-> params, outcome |-> outcome,
     error |-> error, argument |-> argument, result |-> result, calls |-> calls,
     failed |-> failed]

\* Mutant of loadPaypalCommerce: window.paypal is not looked at first.
loadPaypalCommerce_AlwaysLoads(params, environment) ==
    /\ UNCHANGED << main, alternative, probe, pending >>
    /\ LET loadScript == Call("loadScript", << "paypal-js@5.0.5" >>)
           paypalLoadScript == Call("paypalLoadScript", << params >>)
           before == IF window.paypalLoadScript THEN << >> ELSE << loadScript >>
           sdk == Some([configuredWith |-> params])
       IN  window' =
               IF _validateParams(params) # ""
               THEN [window EXCEPT
                        !.last = LoaderInvocation(params, "throw", "InvalidArgumentError",
                                                  _validateParams(params), None, << >>, 0)]
               ELSE IF ~window.paypalLoadScript /\ ~environment.loadScript
               THEN [window EXCEPT
                        !.last = LoaderInvocation(params, "throw", "Error", "", None,
                                                  << loadScript >>, 1)]
               ELSE IF ~window.paypalLoadScript /\ ~environment.definesPaypalLoadScript
               THEN [window EXCEPT
                        !.last = LoaderInvocation(params, "throw",
                                                  "PaymentMethodClientUnavailableError", "",
                                                  None, << loadScript >>, 0)]
               ELSE IF ~environment.paypalLoadScript
               THEN [paypal |-> window.paypal, paypalLoadScript |-> TRUE,
                     last |-> LoaderInvocation(params, "throw", "Error", "", None,
                                               before \o << paypalLoadScript >>,
                                               Len(before) + 1)]
               ELSE IF ~environment.definesPaypal /\ ~IsSome(window.paypal)
               THEN [paypal |-> None, paypalLoadScript |-> TRUE,
                     last |-> LoaderInvocation(params, "throw",
                                               "PaymentMethodClientUnavailableError", "",
                                               None, before \o << paypalLoadScript >>, 0)]
               ELSE [paypal |-> IF environment.definesPaypal THEN sdk ELSE window.paypal,
                     paypalLoadScript |-> TRUE,
                     last |-> LoaderInvocation(params, "return", "", "",
                                  IF environment.definesPaypal THEN sdk ELSE window.paypal,
                                  before \o << paypalLoadScript >>, 0)]

\* Mutant of loadPaypalCommerce: the parameters are validated after the script
\* is loaded.
loadPaypalCommerce_ValidatesLate(params, environment) ==
    /\ UNCHANGED << main, alternative, probe, pending >>
    /\ LET loadScript == Call("loadScript", << "paypal-js@5.0.5" >>)
           paypalLoadScript == Call("paypalLoadScript", << params >>)
           before == IF window.paypalLoadScript THEN << >> ELSE << loadScript >>
           sdk == Some([configuredWith |-> params])
       IN  window' =
               IF IsSome(window.paypal)
               THEN [window EXCEPT
                        !.last = LoaderInvocation(params, "return", "", "", window.paypal,
                                                  << >>, 0)]
               ELSE IF ~window.paypalLoadScript /\ ~environment.loadScript
               THEN [window EXCEPT
                        !.last = LoaderInvocation(params, "throw", "Error", "", None,
                                                  << loadScript >>, 1)]
               ELSE IF ~window.paypalLoadScript /\ ~environment.definesPaypalLoadScript
               THEN [window EXCEPT
                        !.last = LoaderInvocation(params, "throw",
                                                  "PaymentMethodClientUnavailableError", "",
                                                  None, << loadScript >>, 0)]
               ELSE IF _validateParams(params) # ""
               THEN [paypal |-> None, paypalLoadScript |-> TRUE,
                     last |-> LoaderInvocation(params, "throw", "InvalidArgumentError",
                                               _validateParams(params), None, before, 0)]
               ELSE IF ~environment.paypalLoadScript
               THEN [paypal |-> None, paypalLoadScript |-> TRUE,
                     last |-> LoaderInvocation(params, "throw", "Error", "", None,
                                               before \o << paypalLoadScript >>,
                                               Len(before) + 1)]
               ELSE IF ~environment.definesPaypal
               THEN [paypal |-> None, paypalLoadScript |-> TRUE,
                     last |-> LoaderInvocation(params, "throw",
                                               "PaymentMethodClientUnavailableError", "",
                                               None, before \o << paypalLoadScript >>, 0)]
               ELSE [paypal |-> sdk, paypalLoadScript |-> TRUE,
                     last |-> LoaderInvocation(params, "return", "", "", sdk,
                                               before \o << paypalLoadScript >>, 0)]

\* loadPaypalCommerce, lines 348-371.
loadPaypalCommerce(params, environment) ==
    /\ UNCHANGED << main, alternative, probe, pending >>
    /\ LET loadScript == Call("loadScript", << "paypal-js@5.0.5" >>)
           paypalLoadScript == Call("paypalLoadScript", << params >>)
           before == IF window.paypalLoadScript THEN << >> ELSE << loadScript >>
           sdk == Some([configuredWith |-> params])
       IN  window' =
               IF IsSome(window.paypal)
               THEN [window EXCEPT
                        !.last = LoaderInvocation(params, "return", "", "", window.paypal,
                                                  << >>, 0)]
               ELSE IF _validateParams(params) # ""
               THEN [window EXCEPT
                        !.last = LoaderInvocation(params, "throw", "InvalidArgumentError",
                                                  _validateParams(params), None, << >>, 0)]
               ELSE IF ~window.paypalLoadScript /\ ~environment.loadScript
               THEN [window EXCEPT
                        !.last = LoaderInvocation(params, "throw", "Error", "", None,
                                                  << loadScript >>, 1)]
               ELSE IF ~window.paypalLoadScript /\ ~environment.definesPaypalLoadScript
               THEN [window EXCEPT
                        !.last = LoaderInvocation(params, "throw",
                                                  "PaymentMethodClientUnavailableError", "",
                                                  None, << loadScript >>, 0)]
               ELSE IF ~environment.paypalLoadScript
               THEN [paypal |-> None, paypalLoadScript |-> TRUE,
                     last |-> LoaderInvocation(params, "throw", "Error", "", None,
                                               before \o << paypalLoadScript >>,
                                               Len(before) + 1)]
               ELSE IF ~environment.definesPaypal
               THEN [paypal |-> None, paypalLoadScript |-> TRUE,
                     last |-> LoaderInvocation(params, "throw",
                                               "PaymentMethodClientUnavailableError", "",
                                               None, before \o << paypalLoadScript >>, 0)]
               ELSE [paypal |-> sdk, paypalLoadScript |-> TRUE,
                     last |-> LoaderInvocation(params, "return", "", "", sdk,
                                               before \o << paypalLoadScript >>, 0)]

(***************************************************************************)
(* LoaderSpec: any sequence of loadPaypalCommerce calls on one page.       *)
(***************************************************************************)
LoaderInit ==
    /\ Init
    /\ _orderActionCreator
    /\ engine = "TimSort"

LoaderNext ==
    \E params \in ScriptParams, environment \in ScriptEnvironments :
        loadPaypalCommerce(params, environment)

LoaderSpec == LoaderInit /\ [][LoaderNext]_vars

(***************************************************************************)
(* C36.  Once window.paypal is set, a loadPaypalCommerce call returns that *)
(* SDK object and does nothing else: its parameters are not validated, no  *)
(* script is loaded, paypalLoadScript is not called and window.paypal      *)
(* stays the same.  And a call loads the paypal-js script only when        *)
(* window.paypalLoadScript is not defined.                                 *)
(***************************************************************************)
C36_LoadedSdkIsReused ==
    [][ window' # window =>
            /\ IsSome(window.paypal) =>
                   /\ window'.last.outcome = "return"
                   /\ window'.last.result = window.paypal
                   /\ window'.last.calls = << >>
                   /\ window'.paypal = window.paypal
            /\ window.paypalLoadScript =>
                   \A i \in 1..Len(window'.last.calls) :
                       window'.last.calls[i].name # "loadScript" ]_vars

\* A call without a params object got the SDK configured for merchant-1.
C36_Witness ==
    /\ window.last.op = "loadPaypalCommerce"
    /\ window.last.params = None
    /\ window.last.outcome = "return"
    /\ IsSome(window.last.result)
    /\ Val(Val(window.last.result).configuredWith).merchant_id = Some("merchant-1")

(***************************************************************************)
(* C37.  A loadPaypalCommerce call that finds no window.paypal fails with  *)
(* InvalidArgumentError naming the first missing one of the params object, *)
(* its client-id and its merchant-id, having loaded no script; it fails    *)
(* with PaymentMethodClientUnavailableError when loadScript has resolved   *)
(* and paypalLoadScript is still undefined, and when paypalLoadScript has  *)
(* resolved and window.paypal is still undefined.  No call returns an      *)
(* undefined SDK.                                                          *)
(***************************************************************************)
C37_LoaderFailures ==
    [][ window' # window =>
            LET call == window'.last
                p == call.params
                missing == IF ~IsSome(p) THEN "options"
                           ELSE IF ~IsSome(Val(p).client_id) THEN "client-id"
                           ELSE IF ~IsSome(Val(p).merchant_id) THEN "merchant-id"
                           ELSE ""
                Resolved(name) == \E i \in 1..Len(call.calls) :
                                      call.calls[i].name = name /\ call.failed # i
            IN  /\ (~IsSome(window.paypal) /\ missing # "") =>
                       /\ call.outcome = "throw"
                       /\ call.error = "InvalidArgumentError"
                       /\ call.argument = missing
                       /\ call.calls = << >>
                       /\ window'.paypalLoadScript = window.paypalLoadScript
                /\ (~IsSome(window.paypal) /\ missing = "") =>
                       /\ (Resolved("loadScript") /\ ~window'.paypalLoadScript) =>
                              /\ call.outcome = "throw"
                              /\ call.error = "PaymentMethodClientUnavailableError"
                       /\ (Resolved("paypalLoadScript") /\ ~IsSome(window'.paypal)) =>
                              /\ call.outcome = "throw"
                              /\ call.error = "PaymentMethodClientUnavailableError"
                /\ call.outcome = "return" =>
                       /\ IsSome(call.result)
                       /\ call.result = window'.paypal ]_vars

\* paypalLoadScript was already defined, was called and left window.paypal
\* undefined.
C37_Witness ==
    /\ window.last.op = "loadPaypalCommerce"
    /\ window.last.error = "PaymentMethodClientUnavailableError"
    /\ Len(window.last.calls) = 1
    /\ window.last.calls[1].name = "paypalLoadScript"
    /\ window.paypal = None

(***************************************************************************)
(* _getParamsScript, lines 288-329, and ParamsSpec, which applies it to    *)
(* every initializationData below.                                         *)
(***************************************************************************)
\* The alternative payment methods a merchant can have available or enabled;
\* card, credit and paylater are funding sources of their own, not among them.
AlternativePaymentMethods == {"sepa", "ideal"}

\* A list of alternative payment methods without repetition, or no list.
ApmLists ==
    {None} \cup
        { Some(l) : l \in { m \in UNION { [1..n -> AlternativePaymentMethods] :
                                             n \in 0..Cardinality(AlternativePaymentMethods) } :
                                \A i, j \in 1..Len(m) : i # j => m[i] # m[j] } }

ParamsInitializationData ==
    [clientId : {Some("client")}, merchantId : {Some("merchant-1")},
     attributionId : {None}, intent : {"capture", "authorize"},
     isPayPalCreditAvailable : BOOLEAN,
     availableAlternativePaymentMethods : ApmLists,
     enabledAlternativePaymentMethods : ApmLists]

\* The elements of `list` that are not in `without`, in their order.
RECURSIVE Excluding(_, _)
Excluding(list, without) ==
    IF list = << >> THEN << >>
    ELSE (IF \E i \in 1..Len(without) : without[i] = Head(list)
          THEN << >> ELSE << Head(list) >>)
         \o Excluding(Tail(list), without)

\* Mutant of _getParamsScript: credit and paylater are disabled in any case.
_getParamsScript_DisablesCredit(initializationData, cart) ==
    LET available == initializationData.availableAlternativePaymentMethods
        enabled == initializationData.enabledAlternativePaymentMethods
        availableAlternativePaymentMethods == IF IsSome(available) THEN Val(available) ELSE << >>
        enabledAlternativePaymentMethods == IF IsSome(enabled) THEN Val(enabled) ELSE << >>
        disableFunding ==
            << "card" >>
            \o Excluding(availableAlternativePaymentMethods, enabledAlternativePaymentMethods)
            \o << "credit", "paylater" >>
        enableFunding ==
            enabledAlternativePaymentMethods
            \o (IF initializationData.isPayPalCreditAvailable
                THEN << "credit", "paylater" >> ELSE << >>)
        params == [client_id |-> initializationData.clientId,
                   merchant_id |-> initializationData.merchantId,
                   commit |-> FALSE,
                   currency |-> cart.currency.code,
                   components |-> << "buttons", "messages" >>,
                   disable_funding |-> disableFunding,
                   intent |-> initializationData.intent,
                   data_partner_attribution_id |-> initializationData.attributionId]
    IN  IF Len(enableFunding) # 0
        THEN params @@ [enable_funding |-> enableFunding]
        ELSE params

_getParamsScript(initializationData, cart) ==
    LET available == initializationData.availableAlternativePaymentMethods
        enabled == initializationData.enabledAlternativePaymentMethods
        availableAlternativePaymentMethods == IF IsSome(available) THEN Val(available) ELSE << >>
        enabledAlternativePaymentMethods == IF IsSome(enabled) THEN Val(enabled) ELSE << >>
        disableFunding ==
            << "card" >>
            \o Excluding(availableAlternativePaymentMethods, enabledAlternativePaymentMethods)
            \o (IF initializationData.isPayPalCreditAvailable
                THEN << >> ELSE << "credit", "paylater" >>)
        enableFunding ==
            enabledAlternativePaymentMethods
            \o (IF initializationData.isPayPalCreditAvailable
                THEN << "credit", "paylater" >> ELSE << >>)
        params == [client_id |-> initializationData.clientId,
                   merchant_id |-> initializationData.merchantId,
                   commit |-> FALSE,
                   currency |-> cart.currency.code,
                   components |-> << "buttons", "messages" >>,
                   disable_funding |-> disableFunding,
                   intent |-> initializationData.intent,
                   data_partner_attribution_id |-> initializationData.attributionId]
    IN  IF Len(enableFunding) # 0
        THEN params @@ [enable_funding |-> enableFunding]
        ELSE params

getParamsScript(initializationData) ==
    /\ probe.input = Some(initializationData)
    /\ probe.output = None
    /\ probe' = [function |-> "_getParamsScript", input |-> Some(initializationData),
                 output |-> Some(_getParamsScript(initializationData,
                                                  [currency |-> [code |-> "USD"]]))]
    /\ UNCHANGED << main, alternative, pending, window >>

\* The strategy as constructed, and the initializationData about to be used.
ParamsInit ==
    /\ _isCredit = None
    /\ _cache = None
    /\ _submittedShippingAddress = None
    /\ _currentShippingAddress = None
    /\ _shippingOptionId = None
    /\ _intent = None
    /\ buttons = None
    /\ _orderActionCreator = TRUE
    /\ engine = "TimSort"
    /\ recorded = FALSE
    /\ last = NoInvocation
    /\ clicked = None
    /\ alternative = NoAlternative
    /\ pending = NoPending
    /\ window = NoWindow
    /\ probe \in [function : {""},
                  input : { Some(d) : d \in ParamsInitializationData },
                  output : {None}]

ParamsNext ==
    \E initializationData \in ParamsInitializationData : getParamsScript(initializationData)

ParamsSpec == ParamsInit /\ [][ParamsNext]_vars

C39_RendersOnlyAnEligibleButton ==
    LET call == alternative.last
        options == Val(call.input)
        environment == Val(call.environment)
        names == { call.calls[i].name : i \in 1..Len(call.calls) }
        complete == /\ IsSome(options.methodId)
                    /\ IsSome(options.containerId)
                    /\ IsSome(options.paypalcommercealternativemethods)
                    /\ IsSome(Val(options.paypalcommercealternativemethods).apm)
        reachesRender == /\ complete
                         /\ environment.checkout
                         /\ environment.sdk # "rejected"
        valid == Val(Val(options.paypalcommercealternativemethods).apm) \in FUNDING
    IN  call.op = "initialize" =>
            /\ reachesRender =>
                   IF environment.sdk = "undefined"
                   THEN /\ call.outcome = "throw"
                        /\ call.error = "PaymentMethodClientUnavailableError"
                        /\ names \cap {"Buttons", "render"} = {}
                        /\ alternative.container = "empty"
                   ELSE IF ~valid
                   THEN /\ call.outcome = "throw"
                        /\ call.error = "InvalidArgumentError"
                        /\ names \cap {"Buttons", "render"} = {}
                        /\ alternative.container = "empty"
                        /\ alternative.button = None
                   ELSE IF environment.eligible
                   THEN /\ call.outcome = "return"
                        /\ "render" \in names
                        /\ alternative.container = "button"
                        /\ IsSome(alternative.button)
                   ELSE /\ call.outcome = "return"
                        /\ "render" \notin names
                        /\ alternative.container = "removed"
                        /\ alternative.button = None
            /\ "render" \in names =>
                   /\ reachesRender
                   /\ environment.sdk = "loaded"
                   /\ valid
                   /\ environment.eligible

\* The button was not eligible: the container element was removed.
C39_Witness ==
    /\ alternative.last.op = "initialize"
    /\ alternative.last.outcome = "return"
    /\ Val(alternative.last.environment).eligible = FALSE
    /\ alternative.container = "removed"
    /\ IsSome(alternative._paypalCommerceSdk)

====
